---------------------------- MODULE Spec2Model ----------------------------
(***************************************************************************)
(* CompassQL specification-level constraints.                              *)
(*                                                                         *)
(*   src/src/query/spec.ts       SpecQuery, isAggregate, isStack,          *)
(*                               isExplicitStack, isImplicitStack          *)
(*   src/src/constraint/spec.ts  SPEC_CONSTRAINTS, SpecConstraintModel,    *)
(*                               SPEC_CONSTRAINTS_BY_PROPERTY, checkSpec   *)
(*                                                                         *)
(* JavaScript values are strings: "undefined" is an absent key, "?" the    *)
(* short wildcard, "true"/"false"/"null" the literals, anything else a     *)
(* concrete value.  An encoding query is a record with one field per key;  *)
(* `scale` is "obj" when it is an object, and then scaleZero / scaleType   *)
(* hold its `zero` and `type` children.                                    *)
(***************************************************************************)
EXTENDS Naturals, Sequences, FiniteSets, TLC

Undef == "undefined"
SHORT_WILDCARD == "?"

\* !!v
Truthy(v) == v \notin {Undef, "null", "false", ""}

\* wildcard.ts: a value is a wildcard iff it is the placeholder.
\* A Wildcard object, { name?: ..., enum?: [...] }.
WILDCARD_OBJECT == "{enum}"

\* isShortWildcard(prop) || (prop has enum or name and is not an array)
isWildcard(v) == v = SHORT_WILDCARD \/ v = WILDCARD_OBJECT

(***************************************************************************)
(* Properties: a flat property is <<name>>, a nested one <<parent, child>>.*)
(***************************************************************************)
MARK      == <<"mark">>
CHANNEL   == <<"channel">>
FIELD     == <<"field">>
TYPE      == <<"type">>
AGGREGATE == <<"aggregate">>
BIN       == <<"bin">>
TIMEUNIT  == <<"timeUnit">>
SCALE     == <<"scale">>
STACK     == <<"stack">>
AUTOCOUNT == <<"autoCount">>

getEncodingNestedProp(parent, child) == <<parent, child>>

isEncodingNestedProp(prop) == Len(prop) = 2

isEncodingProperty(prop) ==
  /\ Len(prop) = 1
  /\ prop[1] \in {"channel", "field", "type", "aggregate", "bin", "timeUnit",
                  "scale", "axis", "legend", "sort", "stack", "autoCount"}

\* The canonical key of a property: the flat name, or "parent.child".
toKey(prop) ==
  IF isEncodingNestedProp(prop) THEN prop[1] \o "." \o prop[2] ELSE prop[1]

(***************************************************************************)
(* Encoding queries.                                                       *)
(***************************************************************************)
NoEnc ==
  [channel |-> Undef, field |-> Undef, type |-> Undef, aggregate |-> Undef,
   bin |-> Undef, timeUnit |-> Undef, scale |-> Undef, scaleZero |-> Undef,
   scaleType |-> Undef, stack |-> Undef, autoCount |-> Undef, value |-> Undef]

\* encQ[parent][child]
NestedValue(encQ, parent, child) ==
  IF parent = "scale" /\ encQ.scale = "obj"
  THEN IF child = "zero" THEN encQ.scaleZero
       ELSE IF child = "type" THEN encQ.scaleType ELSE Undef
  ELSE Undef

isValueQuery(encQ) == Truthy(encQ.value)

isFieldQuery(encQ) == Truthy(encQ.field) \/ encQ.aggregate = "count"

\* 'autoCount' in encQ
isAutoCountQuery(encQ) == encQ.autoCount # Undef

isDisabledAutoCountQuery(encQ) == isAutoCountQuery(encQ) /\ encQ.autoCount = "false"

isEnabledAutoCountQuery(encQ) == isAutoCountQuery(encQ) /\ encQ.autoCount = "true"

isDimension(encQ) ==
  /\ isFieldQuery(encQ)
  /\ \/ encQ.type \in {"nominal", "ordinal"}
     \/ (~isWildcard(encQ.bin) /\ Truthy(encQ.bin))
     \/ (~isWildcard(encQ.timeUnit) /\ Truthy(encQ.timeUnit))

isMeasure(encQ) ==
  isFieldQuery(encQ) /\ ~isDimension(encQ) /\ encQ.type # "temporal"

\* The scale type of a field query; Undef while it is still undetermined.
scaleType(encQ) ==
  LET sType == IF encQ.scale = "obj" THEN encQ.scaleType ELSE Undef IN
  IF \/ isWildcard(sType) \/ isWildcard(encQ.type)
     \/ isWildcard(encQ.channel) \/ isWildcard(encQ.bin)
  THEN Undef
  ELSE IF Truthy(sType) THEN sType
  ELSE IF encQ.type = "temporal" /\ isWildcard(encQ.timeUnit) THEN Undef
  ELSE IF encQ.type = "quantitative" THEN "linear"
  ELSE IF encQ.type = "temporal" THEN "time"
  ELSE IF encQ.type \in {"nominal", "ordinal", "key"} THEN "point"
  ELSE Undef

(***************************************************************************)
(* query/spec.ts.  A SpecQuery is [mark, encodings].                       *)
(***************************************************************************)
\* isAggregate with the wildcard test left out.
isAggregateAnyAggregate(specQ) ==
  \E i \in 1..Len(specQ.encodings) :
    LET encQ == specQ.encodings[i] IN
      \/ (isFieldQuery(encQ) /\ Truthy(encQ.aggregate))
      \/ isEnabledAutoCountQuery(encQ)

\* isAggregate(specQ)
isAggregate(specQ) ==
  \E i \in 1..Len(specQ.encodings) :
    LET encQ == specQ.encodings[i] IN
      \/ (isFieldQuery(encQ) /\ ~isWildcard(encQ.aggregate) /\ Truthy(encQ.aggregate))
      \/ isEnabledAutoCountQuery(encQ)

\* isExplicitStack with the wildcard test left out.
isExplicitStackAnyStack(specQ) ==
  \E i \in 1..Len(specQ.encodings) :
    LET encQ == specQ.encodings[i] IN isFieldQuery(encQ) /\ Truthy(encQ.stack)

\* isExplicitStack(specQ)
isExplicitStack(specQ) ==
  \E i \in 1..Len(specQ.encodings) :
    LET encQ == specQ.encodings[i] IN
      isFieldQuery(encQ) /\ ~isWildcard(encQ.stack) /\ Truthy(encQ.stack)

StackFlags0 ==
  [xUsed |-> FALSE, yUsed |-> FALSE, xOrYAggregateOrAutoCount |-> FALSE,
   colorUsed |-> FALSE]

\* One pass of the loop body of isImplicitStack.  The switch has no break:
\* case X runs on into case Y and case COLOR, case Y runs on into case COLOR.
ImplicitStackStep(f, encQ) ==
  IF isFieldQuery(encQ)
  THEN LET fromX     == encQ.channel = "x"
           fromY     == fromX \/ encQ.channel = "y"
           fromColor == fromY \/ encQ.channel = "color"
       IN [xUsed |-> f.xUsed \/ fromX,
           yUsed |-> f.yUsed \/ fromY,
           xOrYAggregateOrAutoCount |->
             f.xOrYAggregateOrAutoCount \/ (fromY /\ Truthy(encQ.aggregate)),
           colorUsed |-> f.colorUsed \/ fromColor]
  ELSE IF isAutoCountQuery(encQ) /\ encQ.channel \in {"x", "y"}
       THEN [f EXCEPT !.xOrYAggregateOrAutoCount = TRUE]
       ELSE f

RECURSIVE ImplicitStackLoop(_, _)
ImplicitStackLoop(f, encodings) ==
  IF encodings = <<>> THEN f
  ELSE ImplicitStackLoop(ImplicitStackStep(f, Head(encodings)), Tail(encodings))

isImplicitStack(specQ) ==
  IF isExplicitStack(specQ) THEN FALSE
  ELSE LET f == ImplicitStackLoop(StackFlags0, specQ.encodings) IN
         f.xUsed /\ f.yUsed /\ f.xOrYAggregateOrAutoCount /\ f.colorUsed

isStack(specQ) == isExplicitStack(specQ) \/ isImplicitStack(specQ)

(***************************************************************************)
(* SpecQueryModel: [specQuery, wildcardIndex].  wildcardIndex records the  *)
(* properties the query held as wildcards when the model was made: .mark,  *)
(* and .encoding, a set of <<position, property key>>.  Binding a wildcard *)
(* leaves it alone, so a rule can tell an enumerated value from a manually *)
(* specified one (constraint/spec.ts: "if channel was not a wildcard",     *)
(* "check if it is enumerated").                                           *)
(***************************************************************************)
getMark(specM) == specM.specQuery.mark

\* The usable encodings: disabled auto-counts are filtered out.
getEncodings(specM) ==
  SelectSeq(specM.specQuery.encodings, LAMBDA encQ : ~isDisabledAutoCountQuery(encQ))

channelUsed(specM, channel) ==
  \E i \in 1..Len(getEncodings(specM)) : getEncodings(specM)[i].channel = channel

RECURSIVE FirstByChannel(_, _)
FirstByChannel(encodings, channel) ==
  IF encodings = <<>> THEN NoEnc
  ELSE IF Head(encodings).channel = channel THEN Head(encodings)
  ELSE FirstByChannel(Tail(encodings), channel)

\* NoEnc stands for "not present".
getEncodingQueryByChannel(specM, channel) ==
  FirstByChannel(specM.specQuery.encodings, channel)

getEncodingQueryByIndex(specM, i) == specM.specQuery.encodings[i]

hasProperty(wildcardIndex, prop) ==
  IF prop = MARK THEN wildcardIndex.mark
  ELSE \E e \in wildcardIndex.encoding : e[2] = toKey(prop)

hasEncodingProperty(wildcardIndex, i, prop) ==
  <<i, toKey(prop)>> \in wildcardIndex.encoding

\* wildcardIndex.encodingIndicesByProperty.get(prop) || []
encodingIndicesByProperty(wildcardIndex, prop) ==
  {e[1] : e \in {w \in wildcardIndex.encoding : w[2] = toKey(prop)}}

\* Null when the specification is not stacked, else the stack properties.
Null == [stacked |-> FALSE, fieldChannel |-> Undef]

stack(specM) ==
  LET specQ == specM.specQuery
      xEncQ == getEncodingQueryByChannel(specM, "x")
      xIsAggregate == \/ (isFieldQuery(xEncQ) /\ Truthy(xEncQ.aggregate))
                      \/ (isAutoCountQuery(xEncQ) /\ Truthy(xEncQ.autoCount))
  IN IF isStack(specQ)
     THEN [stacked |-> TRUE, fieldChannel |-> IF xIsAggregate THEN "x" ELSE "y"]
     ELSE Null

(***************************************************************************)
(* vega-lite tables read by the rules.                                     *)
(***************************************************************************)
Marks == {"area", "line", "text", "bar", "circle", "square", "tick", "rule",
          "rect", "point"}

NONSPATIAL_CHANNELS ==
  {"color", "shape", "size", "opacity", "text", "detail", "order"}

SUM_OPS == {"count", "sum", "distinct", "valid", "missing"}

supportMark(channel, mark) ==
  CASE channel \in {"x", "y", "color", "detail", "order", "opacity", "row", "column"}
         -> mark \in Marks
    [] channel = "size"
         -> mark \in {"point", "tick", "rule", "circle", "square", "bar", "text", "line"}
    [] channel = "shape" -> mark = "point"
    [] channel = "text"  -> mark = "text"
    [] OTHER -> FALSE

(***************************************************************************)
(* constraint/spec.ts: the predicates of SPEC_CONSTRAINTS.  opt is the set *)
(* of option names that hold a truthy value.  A predicate that can throw   *)
(* has a companion <name>Throws.                                           *)
(***************************************************************************)
Skipped(encQ) == isValueQuery(encQ) \/ isDisabledAutoCountQuery(encQ)

\* The loop without the test that the channel is not a wildcard.
noRepeatedChannelAnyValue(specM, opt) ==
  LET encs == getEncodings(specM) IN
    ~\E i, j \in 1..Len(encs) : i < j /\ encs[i].channel = encs[j].channel

noRepeatedChannel(specM, opt) ==
  LET encs == getEncodings(specM) IN
    ~\E i, j \in 1..Len(encs) :
        /\ i < j
        /\ ~isWildcard(encs[i].channel)
        /\ encs[i].channel = encs[j].channel

alwaysIncludeZeroInScaleWithBarMark(specM, opt) ==
  LET encs == getEncodings(specM) IN
    ~ /\ getMark(specM) = "bar"
      /\ \E i \in 1..Len(encs) :
           /\ isFieldQuery(encs[i])
           /\ encs[i].channel \in {"x", "y"}
           /\ encs[i].type = "quantitative"
           /\ Truthy(encs[i].scale)
           /\ NestedValue(encs[i], "scale", "zero") = "false"

\* The callback with the test of bin left out for a quantitative field.
AutoCountFieldOkAnyQuantitative(encQ) ==
  IF isValueQuery(encQ) THEN "false"
  ELSE IF isAutoCountQuery(encQ) THEN "true"
  ELSE CASE encQ.type = "quantitative" -> "true"
         [] encQ.type = "temporal" -> IF Truthy(encQ.timeUnit) THEN "true" ELSE "false"
         [] encQ.type \in {"ordinal", "key", "nominal"} -> "true"
         [] OTHER -> "error"

\* The callback of autoAddCount's every(...) when an auto-count is enabled:
\* "true", "false", or "error" for the throw after the type switch.
AutoCountFieldOk(encQ) ==
  IF isValueQuery(encQ) THEN "false"
  ELSE IF isAutoCountQuery(encQ) THEN "true"
  ELSE CASE encQ.type = "quantitative" -> IF Truthy(encQ.bin) THEN "true" ELSE "false"
         [] encQ.type = "temporal" -> IF Truthy(encQ.timeUnit) THEN "true" ELSE "false"
         [] encQ.type \in {"ordinal", "key", "nominal"} -> "true"
         [] OTHER -> "error"

\* every(encodings, AutoCountFieldOk): stops at the first result that is not true.
RECURSIVE AutoCountEvery(_)
AutoCountEvery(encodings) ==
  IF encodings = <<>> THEN "true"
  ELSE IF AutoCountFieldOk(Head(encodings)) = "true" THEN AutoCountEvery(Tail(encodings))
  ELSE AutoCountFieldOk(Head(encodings))

\* The callback of autoAddCount's some(...) when auto-count is surely absent.
CountTarget(encQ) ==
  IF (isFieldQuery(encQ) \/ isAutoCountQuery(encQ)) /\ encQ.type = "quantitative"
  THEN IF isDisabledAutoCountQuery(encQ) THEN FALSE
       ELSE isFieldQuery(encQ) /\ (~Truthy(encQ.bin) \/ isWildcard(encQ.bin))
  ELSE IF isFieldQuery(encQ) /\ encQ.type = "temporal"
  THEN ~Truthy(encQ.timeUnit) \/ isWildcard(encQ.timeUnit)
  ELSE FALSE

autoAddCountResult(specM) ==
  LET encs == getEncodings(specM)
      hasAutoCount == \E i \in 1..Len(encs) : isEnabledAutoCountQuery(encs[i])
      neverHaveAutoCount ==
        \A index \in encodingIndicesByProperty(specM.wildcardIndex, AUTOCOUNT) :
          LET encQ == getEncodingQueryByIndex(specM, index) IN
            isAutoCountQuery(encQ) /\ ~isWildcard(encQ.autoCount)
  IN IF hasAutoCount THEN AutoCountEvery(encs)
     ELSE IF neverHaveAutoCount
          THEN IF \E i \in 1..Len(encs) : CountTarget(encs[i]) THEN "true" ELSE "false"
          ELSE "true"

autoAddCount(specM, opt) == autoAddCountResult(specM) = "true"

autoAddCountThrows(specM, opt) == autoAddCountResult(specM) = "error"

channelPermittedByMarkType(specM, opt) ==
  LET mark == getMark(specM)
      encs == getEncodings(specM)
  IN \/ isWildcard(mark)
     \/ \A i \in 1..Len(encs) :
          isWildcard(encs[i].channel) \/ supportMark(encs[i].channel, mark)

\* A switch whose default case returns false instead of throwing.
hasAllRequiredChannelsForMarkNeverThrows(specM, opt) == FALSE

hasAllRequiredChannelsForMarkThrows(specM, opt) == getMark(specM) \notin Marks

\* The switch with one of x and y being enough for area and line.
hasAllRequiredChannelsForMarkEitherAxis(specM, opt) ==
  LET mark == getMark(specM) IN
  CASE mark = "text" -> channelUsed(specM, "text")
    [] mark \in {"area", "line", "bar", "circle", "square", "tick", "rule", "rect"}
         -> channelUsed(specM, "x") \/ channelUsed(specM, "y")
    [] mark = "point"
         -> \/ ~hasProperty(specM.wildcardIndex, CHANNEL)
            \/ channelUsed(specM, "x") \/ channelUsed(specM, "y")
    [] OTHER -> FALSE

\* The switch with point grouped with bar: x or y whatever the query was.
hasAllRequiredChannelsForMarkPointLikeBar(specM, opt) ==
  LET mark == getMark(specM) IN
  CASE mark \in {"area", "line"} -> channelUsed(specM, "x") /\ channelUsed(specM, "y")
    [] mark = "text" -> channelUsed(specM, "text")
    [] mark \in {"bar", "circle", "square", "tick", "rule", "rect", "point"}
         -> channelUsed(specM, "x") \/ channelUsed(specM, "y")
    [] OTHER -> FALSE

hasAllRequiredChannelsForMark(specM, opt) ==
  LET mark == getMark(specM) IN
  CASE mark \in {"area", "line"} -> channelUsed(specM, "x") /\ channelUsed(specM, "y")
    [] mark = "text" -> channelUsed(specM, "text")
    [] mark \in {"bar", "circle", "square", "tick", "rule", "rect"}
         -> channelUsed(specM, "x") \/ channelUsed(specM, "y")
    [] mark = "point"
         -> \/ ~hasProperty(specM.wildcardIndex, CHANNEL)
            \/ channelUsed(specM, "x") \/ channelUsed(specM, "y")
    [] OTHER -> FALSE

omitAggregate(specM, opt) == ~isAggregate(specM.specQuery)

omitAggregatePlotWithDimensionOnlyOnFacet(specM, opt) ==
  LET encs == specM.specQuery.encodings
      Dim(i) == ~Skipped(encs[i]) /\ isFieldQuery(encs[i]) /\ ~Truthy(encs[i].aggregate)
      Facet(i) == encs[i].channel \in {"row", "column"}
      hasDim == \E i \in 1..Len(encs) : Dim(i)
      hasNonFacetDim == \E i \in 1..Len(encs) : Dim(i) /\ ~Facet(i)
      hasEnumeratedFacetDim ==
        \E i \in 1..Len(encs) :
          Dim(i) /\ Facet(i) /\ hasEncodingProperty(specM.wildcardIndex, i, CHANNEL)
  IN ~ /\ isAggregate(specM.specQuery)
       /\ hasDim /\ ~hasNonFacetDim
       /\ (hasEnumeratedFacetDim \/ "constraintManuallySpecifiedValue" \in opt)

omitAggregatePlotWithoutDimension(specM, opt) ==
  LET encs == getEncodings(specM) IN
    isAggregate(specM.specQuery) =>
      \E i \in 1..Len(encs) :
        isDimension(encs[i]) \/ (isFieldQuery(encs[i]) /\ encs[i].type = "temporal")

omitBarLineAreaWithOcclusion(specM, opt) ==
  getMark(specM) \in {"bar", "line", "area"} => isAggregate(specM.specQuery)

\* The loop over the raw encodings: the first one on the size channel decides.
RECURSIVE SizeNotEnumerated(_, _)
SizeNotEnumerated(specM, i) ==
  IF i > Len(specM.specQuery.encodings) THEN TRUE
  ELSE IF specM.specQuery.encodings[i].channel = "size"
  THEN ~hasEncodingProperty(specM.wildcardIndex, i, CHANNEL)
  ELSE SizeNotEnumerated(specM, i + 1)

omitBarTickWithSize(specM, opt) ==
  IF getMark(specM) \in {"tick", "bar"} /\ channelUsed(specM, "size")
  THEN IF "constraintManuallySpecifiedValue" \in opt THEN FALSE
       ELSE SizeNotEnumerated(specM, 1)
  ELSE TRUE

omitBarAreaForLogScale(specM, opt) ==
  LET encs == getEncodings(specM) IN
    ~ /\ getMark(specM) \in {"area", "bar"}
      /\ \E i \in 1..Len(encs) :
           /\ isFieldQuery(encs[i])
           /\ encs[i].channel \in {"x", "y"}
           /\ Truthy(encs[i].scale)
           /\ scaleType(encs[i]) = "log"

\* The loop of omitMultipleNonPositionalChannels from position i on, with the
\* running count and the running "some counted channel was enumerated" flag.
RECURSIVE NonPositionalLoop(_, _, _, _, _)
NonPositionalLoop(specM, opt, i, count, enumerated) ==
  LET encs == specM.specQuery.encodings IN
  IF i > Len(encs) THEN TRUE
  ELSE IF Skipped(encs[i]) THEN NonPositionalLoop(specM, opt, i + 1, count, enumerated)
  ELSE IF ~isWildcard(encs[i].channel) /\ encs[i].channel \in NONSPATIAL_CHANNELS
  THEN LET count2 == count + 1
           enumerated2 ==
             enumerated \/ hasEncodingProperty(specM.wildcardIndex, i, CHANNEL)
       IN IF /\ count2 > 1
             /\ (enumerated2 \/ "constraintManuallySpecifiedValue" \in opt)
          THEN FALSE
          ELSE NonPositionalLoop(specM, opt, i + 1, count2, enumerated2)
  ELSE NonPositionalLoop(specM, opt, i + 1, count, enumerated)

\* The loop with the enumeration test made on the current encoding only.
omitMultipleNonPositionalChannelsCurrentOnly(specM, opt) ==
  LET encs == specM.specQuery.encodings
      Counted(i) == /\ ~Skipped(encs[i])
                    /\ ~isWildcard(encs[i].channel)
                    /\ encs[i].channel \in NONSPATIAL_CHANNELS
  IN ~\E i \in 1..Len(encs) :
        /\ Counted(i)
        /\ \E j \in 1..(i - 1) : Counted(j)
        /\ \/ hasEncodingProperty(specM.wildcardIndex, i, CHANNEL)
           \/ "constraintManuallySpecifiedValue" \in opt

omitMultipleNonPositionalChannels(specM, opt) ==
  NonPositionalLoop(specM, opt, 1, 0, FALSE)

omitNonPositionalOrFacetOverPositionalChannels(specM, opt) ==
  LET encs == specM.specQuery.encodings
      Live(i) == ~Skipped(encs[i])
      hasX == \E i \in 1..Len(encs) : Live(i) /\ encs[i].channel = "x"
      hasY == \E i \in 1..Len(encs) : Live(i) /\ encs[i].channel = "y"
      Other(i) == /\ Live(i) /\ encs[i].channel \notin {"x", "y"}
                  /\ ~isWildcard(encs[i].channel)
      hasNonPositionalChannelOrFacet == \E i \in 1..Len(encs) : Other(i)
      hasEnumeratedNonPositionOrFacetChannel ==
        \E i \in 1..Len(encs) :
          Other(i) /\ hasEncodingProperty(specM.wildcardIndex, i, CHANNEL)
  IN (\/ hasEnumeratedNonPositionOrFacetChannel
      \/ ("constraintManuallySpecifiedValue" \in opt /\ hasNonPositionalChannelOrFacet))
       => (hasX /\ hasY)

\* omitRaw with the test of omitAggregate.
omitRawLikeOmitAggregate(specM, opt) == ~isAggregate(specM.specQuery)

omitRaw(specM, opt) == isAggregate(specM.specQuery)

omitRawContinuousFieldForAggregatePlot(specM, opt) ==
  LET encs == specM.specQuery.encodings
      wi == specM.wildcardIndex
      manual == "constraintManuallySpecifiedValue" \in opt
      RawT(i) == /\ isFieldQuery(encs[i]) /\ encs[i].type = "temporal"
                 /\ ~Truthy(encs[i].timeUnit)
                 /\ (hasEncodingProperty(wi, i, TIMEUNIT) \/ manual)
      RawQ(i) == /\ encs[i].type = "quantitative"
                 /\ isFieldQuery(encs[i])
                 /\ ~Truthy(encs[i].bin) /\ ~Truthy(encs[i].aggregate)
                 /\ \/ hasEncodingProperty(wi, i, BIN)
                    \/ hasEncodingProperty(wi, i, AGGREGATE)
                    \/ hasEncodingProperty(wi, i, AUTOCOUNT)
                    \/ manual
  IN isAggregate(specM.specQuery) =>
       ~\E i \in 1..Len(encs) : ~Skipped(encs[i]) /\ (RawT(i) \/ RawQ(i))

omitRawDetail(specM, opt) ==
  LET encs == specM.specQuery.encodings IN
    \/ isAggregate(specM.specQuery)
    \/ \A i \in 1..Len(encs) :
         \/ Skipped(encs[i])
         \/ ~ /\ encs[i].channel = "detail"
              /\ \/ hasEncodingProperty(specM.wildcardIndex, i, CHANNEL)
                 \/ "constraintManuallySpecifiedValue" \in opt

\* The loop of omitRepeatedField from position i on, with the sets of the
\* field names seen so far and of those seen enumerated.
RECURSIVE RepeatedFieldLoop(_, _, _, _, _)
RepeatedFieldLoop(specM, opt, i, fieldUsed, fieldEnumerated) ==
  LET encs == specM.specQuery.encodings IN
  IF i > Len(encs) THEN TRUE
  ELSE IF isValueQuery(encs[i]) \/ isAutoCountQuery(encs[i])
  THEN RepeatedFieldLoop(specM, opt, i + 1, fieldUsed, fieldEnumerated)
  ELSE IF Truthy(encs[i].field) /\ ~isWildcard(encs[i].field)
  THEN LET field == encs[i].field
           enumerated2 ==
             IF hasEncodingProperty(specM.wildcardIndex, i, FIELD)
             THEN fieldEnumerated \cup {field} ELSE fieldEnumerated
       IN IF /\ field \in fieldUsed
             /\ (field \in enumerated2 \/ "constraintManuallySpecifiedValue" \in opt)
          THEN FALSE
          ELSE RepeatedFieldLoop(specM, opt, i + 1, fieldUsed \cup {field}, enumerated2)
  ELSE RepeatedFieldLoop(specM, opt, i + 1, fieldUsed, fieldEnumerated)

\* The loop without the test of enumeration: any repeated field violates.
omitRepeatedFieldAnyRepeat(specM, opt) ==
  LET encs == specM.specQuery.encodings
      Named(i) == /\ ~isValueQuery(encs[i]) /\ ~isAutoCountQuery(encs[i])
                  /\ Truthy(encs[i].field) /\ ~isWildcard(encs[i].field)
  IN ~\E i, j \in 1..Len(encs) :
        i < j /\ Named(i) /\ Named(j) /\ encs[i].field = encs[j].field

omitRepeatedField(specM, opt) == RepeatedFieldLoop(specM, opt, 1, {}, {})

omitVerticalDotPlot(specM, opt) ==
  LET encs == getEncodings(specM) IN
    ~(Len(encs) = 1 /\ encs[1].channel = "y")

hasAppropriateGraphicTypeForMarkThrows(specM, opt) == getMark(specM) \notin Marks

hasAppropriateGraphicTypeForMark(specM, opt) ==
  LET mark == getMark(specM)
      xEncQ == getEncodingQueryByChannel(specM, "x")
      yEncQ == getEncodingQueryByChannel(specM, "y")
      colorEncQ == getEncodingQueryByChannel(specM, "color")
      xIsMeasure == isMeasure(xEncQ)
      yIsMeasure == isMeasure(yEncQ)
      xIsDimension == isDimension(xEncQ)
      yIsDimension == isDimension(yEncQ)
      colorIsQuantitative == isMeasure(colorEncQ)
      colorIsOrdinal == isFieldQuery(colorEncQ) /\ colorEncQ.type = "ordinal"
      correctChannels == \/ (xIsDimension /\ yIsDimension)
                         \/ (xIsDimension /\ ~channelUsed(specM, "y"))
                         \/ (yIsDimension /\ ~channelUsed(specM, "x"))
      correctColor == colorEncQ = NoEnc \/ colorIsQuantitative \/ colorIsOrdinal
  IN CASE mark \in {"area", "line"}
            -> isAggregate(specM.specQuery) =>
                 /\ xEncQ # NoEnc /\ yEncQ # NoEnc
                 /\ xIsMeasure # yIsMeasure
                 /\ ~(isFieldQuery(xEncQ) /\ ~xIsMeasure /\ xEncQ.type \in {"nominal", "key"})
                 /\ ~(isFieldQuery(yEncQ) /\ ~yIsMeasure /\ yEncQ.type \in {"nominal", "key"})
       [] mark = "text" -> TRUE
       [] mark \in {"bar", "tick"}
            -> IF channelUsed(specM, "size") THEN FALSE ELSE xIsMeasure # yIsMeasure
       [] mark = "rect" -> correctChannels /\ correctColor
       [] mark \in {"circle", "point", "square", "rule"} -> TRUE
       [] OTHER -> FALSE

omitNonLinearScaleTypeWithStack(specM, opt) ==
  LET encs == getEncodings(specM) IN
    stack(specM).stacked =>
      ~\E i \in 1..Len(encs) :
          /\ ~isValueQuery(encs[i])
          /\ \/ (isFieldQuery(encs[i]) /\ Truthy(encs[i].aggregate))
             \/ isEnabledAutoCountQuery(encs[i])
          /\ encs[i].type = "quantitative"
          /\ encs[i].channel \in {"x", "y"}
          /\ scaleType(encs[i]) # "linear"

omitNonSumStack(specM, opt) ==
  LET measureEncQ == getEncodingQueryByChannel(specM, stack(specM).fieldChannel) IN
    stack(specM).stacked =>
      \/ (isFieldQuery(measureEncQ) /\ measureEncQ.aggregate \in SUM_OPS)
      \/ (isAutoCountQuery(measureEncQ) /\ Truthy(measureEncQ.autoCount))

omitTableWithOcclusionIfAutoAddCount(specM, opt) ==
  LET encs == getEncodings(specM)
      xEncQ == getEncodingQueryByChannel(specM, "x")
      yEncQ == getEncodingQueryByChannel(specM, "y")
  IN IF /\ "autoAddCount" \in opt
        /\ (~isFieldQuery(xEncQ) \/ isDimension(xEncQ))
        /\ (~isFieldQuery(yEncQ) \/ isDimension(yEncQ))
     THEN /\ isAggregate(specM.specQuery)
          /\ \A i \in 1..Len(encs) :
               ~ /\ encs[i].channel \notin {"x", "y", "row", "column"}
                 /\ isFieldQuery(encs[i])
                 /\ ~Truthy(encs[i].aggregate)
     ELSE TRUE

(***************************************************************************)
(* SPEC_CONSTRAINTS, in registration order.  The rules from                *)
(* hasAppropriateGraphicTypeForMark on are the expensive ones.             *)
(***************************************************************************)
SPEC_CONSTRAINTS ==
  <<
    [name |-> "noRepeatedChannel",
     properties |-> <<CHANNEL>>,
     allowWildcardForProperties |-> TRUE, strict |-> TRUE],
    [name |-> "alwaysIncludeZeroInScaleWithBarMark",
     properties |-> <<MARK, SCALE, getEncodingNestedProp("scale", "zero"), CHANNEL, TYPE>>,
     allowWildcardForProperties |-> FALSE, strict |-> TRUE],
    [name |-> "autoAddCount",
     properties |-> <<BIN, TIMEUNIT, TYPE, AUTOCOUNT>>,
     allowWildcardForProperties |-> TRUE, strict |-> FALSE],
    [name |-> "channelPermittedByMarkType",
     properties |-> <<CHANNEL, MARK>>,
     allowWildcardForProperties |-> TRUE, strict |-> TRUE],
    [name |-> "hasAllRequiredChannelsForMark",
     properties |-> <<CHANNEL, MARK>>,
     allowWildcardForProperties |-> FALSE, strict |-> TRUE],
    [name |-> "omitAggregate",
     properties |-> <<AGGREGATE, AUTOCOUNT>>,
     allowWildcardForProperties |-> TRUE, strict |-> FALSE],
    [name |-> "omitAggregatePlotWithDimensionOnlyOnFacet",
     properties |-> <<CHANNEL, AGGREGATE, AUTOCOUNT>>,
     allowWildcardForProperties |-> FALSE, strict |-> FALSE],
    [name |-> "omitAggregatePlotWithoutDimension",
     properties |-> <<AGGREGATE, AUTOCOUNT, BIN, TIMEUNIT, TYPE>>,
     allowWildcardForProperties |-> FALSE, strict |-> FALSE],
    [name |-> "omitBarLineAreaWithOcclusion",
     properties |-> <<MARK, AGGREGATE, AUTOCOUNT>>,
     allowWildcardForProperties |-> FALSE, strict |-> FALSE],
    [name |-> "omitBarTickWithSize",
     properties |-> <<CHANNEL, MARK>>,
     allowWildcardForProperties |-> TRUE, strict |-> FALSE],
    [name |-> "omitBarAreaForLogScale",
     properties |-> <<MARK, CHANNEL, SCALE, getEncodingNestedProp("scale", "type"), TYPE>>,
     allowWildcardForProperties |-> FALSE, strict |-> TRUE],
    [name |-> "omitMultipleNonPositionalChannels",
     properties |-> <<CHANNEL>>,
     allowWildcardForProperties |-> TRUE, strict |-> FALSE],
    [name |-> "omitNonPositionalOrFacetOverPositionalChannels",
     properties |-> <<CHANNEL>>,
     allowWildcardForProperties |-> FALSE, strict |-> FALSE],
    [name |-> "omitRaw",
     properties |-> <<AGGREGATE, AUTOCOUNT>>,
     allowWildcardForProperties |-> FALSE, strict |-> FALSE],
    [name |-> "omitRawContinuousFieldForAggregatePlot",
     properties |-> <<AGGREGATE, AUTOCOUNT, TIMEUNIT, BIN, TYPE>>,
     allowWildcardForProperties |-> TRUE, strict |-> FALSE],
    [name |-> "omitRawDetail",
     properties |-> <<CHANNEL, AGGREGATE, AUTOCOUNT>>,
     allowWildcardForProperties |-> FALSE, strict |-> TRUE],
    [name |-> "omitRepeatedField",
     properties |-> <<FIELD>>,
     allowWildcardForProperties |-> TRUE, strict |-> FALSE],
    [name |-> "omitVerticalDotPlot",
     properties |-> <<CHANNEL>>,
     allowWildcardForProperties |-> TRUE, strict |-> FALSE],
    [name |-> "hasAppropriateGraphicTypeForMark",
     properties |-> <<CHANNEL, MARK, TYPE, TIMEUNIT, BIN, AGGREGATE, AUTOCOUNT>>,
     allowWildcardForProperties |-> FALSE, strict |-> FALSE],
    [name |-> "omitNonLinearScaleTypeWithStack",
     properties |-> <<CHANNEL, MARK, AGGREGATE, AUTOCOUNT, SCALE, getEncodingNestedProp("scale", "type"), TYPE>>,
     allowWildcardForProperties |-> FALSE, strict |-> TRUE],
    [name |-> "omitNonSumStack",
     properties |-> <<CHANNEL, MARK, AGGREGATE, AUTOCOUNT>>,
     allowWildcardForProperties |-> FALSE, strict |-> FALSE],
    [name |-> "omitTableWithOcclusionIfAutoAddCount",
     properties |-> <<CHANNEL, TYPE, TIMEUNIT, BIN, AGGREGATE, AUTOCOUNT>>,
     allowWildcardForProperties |-> FALSE, strict |-> FALSE]
  >>

\* The predicate (constraint.satisfy) of the rule called name.
ConstraintSatisfy(name, specM, opt) ==
  CASE name = "noRepeatedChannel" -> noRepeatedChannel(specM, opt)
    [] name = "alwaysIncludeZeroInScaleWithBarMark" -> alwaysIncludeZeroInScaleWithBarMark(specM, opt)
    [] name = "autoAddCount" -> autoAddCount(specM, opt)
    [] name = "channelPermittedByMarkType" -> channelPermittedByMarkType(specM, opt)
    [] name = "hasAllRequiredChannelsForMark" -> hasAllRequiredChannelsForMark(specM, opt)
    [] name = "omitAggregate" -> omitAggregate(specM, opt)
    [] name = "omitAggregatePlotWithDimensionOnlyOnFacet" -> omitAggregatePlotWithDimensionOnlyOnFacet(specM, opt)
    [] name = "omitAggregatePlotWithoutDimension" -> omitAggregatePlotWithoutDimension(specM, opt)
    [] name = "omitBarLineAreaWithOcclusion" -> omitBarLineAreaWithOcclusion(specM, opt)
    [] name = "omitBarTickWithSize" -> omitBarTickWithSize(specM, opt)
    [] name = "omitBarAreaForLogScale" -> omitBarAreaForLogScale(specM, opt)
    [] name = "omitMultipleNonPositionalChannels" -> omitMultipleNonPositionalChannels(specM, opt)
    [] name = "omitNonPositionalOrFacetOverPositionalChannels" -> omitNonPositionalOrFacetOverPositionalChannels(specM, opt)
    [] name = "omitRaw" -> omitRaw(specM, opt)
    [] name = "omitRawContinuousFieldForAggregatePlot" -> omitRawContinuousFieldForAggregatePlot(specM, opt)
    [] name = "omitRawDetail" -> omitRawDetail(specM, opt)
    [] name = "omitRepeatedField" -> omitRepeatedField(specM, opt)
    [] name = "omitVerticalDotPlot" -> omitVerticalDotPlot(specM, opt)
    [] name = "hasAppropriateGraphicTypeForMark" -> hasAppropriateGraphicTypeForMark(specM, opt)
    [] name = "omitNonLinearScaleTypeWithStack" -> omitNonLinearScaleTypeWithStack(specM, opt)
    [] name = "omitNonSumStack" -> omitNonSumStack(specM, opt)
    [] name = "omitTableWithOcclusionIfAutoAddCount" -> omitTableWithOcclusionIfAutoAddCount(specM, opt)
    [] OTHER -> TRUE

\* Whether that predicate throws instead of returning.
ConstraintThrows(name, specM, opt) ==
  CASE name = "autoAddCount" -> autoAddCountThrows(specM, opt)
    [] name = "hasAllRequiredChannelsForMark" -> hasAllRequiredChannelsForMarkThrows(specM, opt)
    [] name = "hasAppropriateGraphicTypeForMark" -> hasAppropriateGraphicTypeForMarkThrows(specM, opt)
    [] OTHER -> FALSE

ConstraintNames == {SPEC_CONSTRAINTS[i].name : i \in 1..Len(SPEC_CONSTRAINTS)}

\* SPEC_CONSTRAINT_INDEX[name]: the last constraint registered under name.
SPEC_CONSTRAINT_INDEX ==
  [name \in ConstraintNames |->
     SPEC_CONSTRAINTS[CHOOSE i \in 1..Len(SPEC_CONSTRAINTS) :
                        /\ SPEC_CONSTRAINTS[i].name = name
                        /\ \A j \in (i + 1)..Len(SPEC_CONSTRAINTS) :
                             SPEC_CONSTRAINTS[j].name # name]]

(***************************************************************************)
(* SpecConstraintModel.  Results are "true", "false" or "error" (a throw). *)
(***************************************************************************)
\* The callback of hasAllRequiredPropertiesSpecific's every(...) for one property.
PropertySpecific(prop, specM) ==
  LET encs == getEncodings(specM) IN
  IF prop = MARK
  THEN IF ~isWildcard(getMark(specM)) THEN "true" ELSE "false"
  ELSE IF isEncodingNestedProp(prop)
  THEN IF \A i \in 1..Len(encs) :
            \/ ~Truthy(encs[i][prop[1]])
            \/ ~isWildcard(NestedValue(encs[i], prop[1], prop[2]))
       THEN "true" ELSE "false"
  ELSE IF ~isEncodingProperty(prop) THEN "error"
  ELSE IF \A i \in 1..Len(encs) :
            ~Truthy(encs[i][prop[1]]) \/ ~isWildcard(encs[i][prop[1]])
       THEN "true" ELSE "false"

RECURSIVE PropertiesEvery(_, _)
PropertiesEvery(properties, specM) ==
  IF properties = <<>> THEN "true"
  ELSE IF PropertySpecific(Head(properties), specM) = "true"
  THEN PropertiesEvery(Tail(properties), specM)
  ELSE PropertySpecific(Head(properties), specM)

hasAllRequiredPropertiesSpecific(c, specM) == PropertiesEvery(c.properties, specM)

\* Whether SpecConstraintModel.satisfy goes on to call the rule's predicate.
ReachesPredicate(c, specM) ==
  c.allowWildcardForProperties \/ hasAllRequiredPropertiesSpecific(c, specM) = "true"

\* satisfy without the test of hasAllRequiredPropertiesSpecific.
satisfyAlwaysEvaluate(c, specM, opt) ==
  IF ConstraintThrows(c.name, specM, opt) THEN "error"
  ELSE IF ConstraintSatisfy(c.name, specM, opt) THEN "true" ELSE "false"

\* SpecConstraintModel.satisfy(specM, schema, opt)
satisfy(c, specM, opt) ==
  IF ~c.allowWildcardForProperties /\ hasAllRequiredPropertiesSpecific(c, specM) # "true"
  THEN IF hasAllRequiredPropertiesSpecific(c, specM) = "error" THEN "error" ELSE "true"
  ELSE IF ConstraintThrows(c.name, specM, opt) THEN "error"
  ELSE IF ConstraintSatisfy(c.name, specM, opt) THEN "true" ELSE "false"

(***************************************************************************)
(* SPEC_CONSTRAINTS_BY_PROPERTY: a PropIndex, a function from property     *)
(* keys to arrays of constraints (held by name), built by a reduce over    *)
(* SPEC_CONSTRAINTS.                                                       *)
(***************************************************************************)
EmptyPropIndex == [k \in {} |-> <<>>]

\* index.get(prop) || []
PropIndexGet(index, prop) ==
  IF toKey(prop) \in DOMAIN index THEN index[toKey(prop)] ELSE <<>>

\* A reduce step that lists a constraint under its first property only.
IndexConstraintFirstProperty(index, c) ==
  LET k == toKey(c.properties[1]) IN
    [key \in DOMAIN index \cup {k} |->
       (IF key \in DOMAIN index THEN index[key] ELSE <<>>)
         \o (IF key = k THEN <<c.name>> ELSE <<>>)]

\* The reduce callback: for (const prop of c.properties()) the constraint is
\* pushed onto the array under prop, made empty first when there is none; a
\* key declared n times receives the constraint n times.
IndexConstraint(index, c) ==
  LET Declared(k) == {i \in 1..Len(c.properties) : toKey(c.properties[i]) = k}
      keys == {toKey(c.properties[i]) : i \in 1..Len(c.properties)}
  IN [k \in DOMAIN index \cup keys |->
        (IF k \in DOMAIN index THEN index[k] ELSE <<>>)
          \o [j \in 1..Cardinality(Declared(k)) |-> c.name]]

\* The accumulator of the reduce after n constraints.
IndexReduce[n \in 0..Len(SPEC_CONSTRAINTS)] ==
  IF n = 0 THEN EmptyPropIndex
  ELSE IndexConstraint(IndexReduce[n - 1], SPEC_CONSTRAINTS[n])

SPEC_CONSTRAINTS_BY_PROPERTY == IndexReduce[Len(SPEC_CONSTRAINTS)]

(***************************************************************************)
(* checkSpec.  The walk returns the result ("null", "(spec) <name>", or    *)
(* "error" when a rule throws), the rules whose satisfy was called, and    *)
(* the rules whose predicate was invoked, both in call order.              *)
(***************************************************************************)
\* The test of checkSpec without c.strict().
ActiveByOptionOnly(c, opt) == c.name \in opt

\* c.strict() || !!opt[c.name()]
Active(c, opt) == c.strict \/ c.name \in opt

\* A loop that does not return at the first rule that fails: it checks
\* every enabled rule and reports the last one that failed.
CheckLoopNoReturn(specConstraints, specM, opt, evaluated, invoked) ==
  LET enabled == SelectSeq(specConstraints,
                           LAMBDA n : Active(SPEC_CONSTRAINT_INDEX[n], opt))
      failed == SelectSeq(enabled,
                          LAMBDA n : satisfy(SPEC_CONSTRAINT_INDEX[n], specM, opt) # "true")
  IN [result |-> IF failed = <<>> THEN "null"
                 ELSE "(spec) " \o failed[Len(failed)],
      evaluated |-> evaluated \o enabled,
      invoked |-> invoked \o SelectSeq(enabled,
                    LAMBDA n : ReachesPredicate(SPEC_CONSTRAINT_INDEX[n], specM))]

\* for (const c of specConstraints) { ... }
RECURSIVE CheckLoop(_, _, _, _, _)
CheckLoop(specConstraints, specM, opt, evaluated, invoked) ==
  IF specConstraints = <<>>
  THEN [result |-> "null", evaluated |-> evaluated, invoked |-> invoked]
  ELSE LET c == SPEC_CONSTRAINT_INDEX[Head(specConstraints)] IN
       IF Active(c, opt)
       THEN LET evaluated2 == Append(evaluated, c.name)
                invoked2 == IF ReachesPredicate(c, specM)
                            THEN Append(invoked, c.name) ELSE invoked
                satisfied == satisfy(c, specM, opt)
            IN IF satisfied = "true"
               THEN CheckLoop(Tail(specConstraints), specM, opt, evaluated2, invoked2)
               ELSE [result |-> IF satisfied = "error" THEN "error"
                                ELSE "(spec) " \o c.name,
                     evaluated |-> evaluated2, invoked |-> invoked2]
       ELSE CheckLoop(Tail(specConstraints), specM, opt, evaluated, invoked)

checkSpec(index, prop, specM, opt) ==
  CheckLoop(PropIndexGet(index, prop), specM, opt, <<>>, <<>>)

(***************************************************************************)
(* Bounds and input pools.                                                 *)
(***************************************************************************)
\* The longest encodings array of a model handed to checkSpec.
MaxEncodings == 2

\* The longest encodings array handed to the query functions.
MaxQueryEncodings == 3

FieldQ(channel, field, type) ==
  [NoEnc EXCEPT !.channel = channel, !.field = field, !.type = type]

AutoCountQ(channel, autoCount) ==
  [NoEnc EXCEPT !.channel = channel, !.autoCount = autoCount,
                !.type = "quantitative"]

\* Encoding queries of the models the search driver works on.
EncodingPool ==
  { [FieldQ("x", "a", "quantitative") EXCEPT !.aggregate = "?"],
    FieldQ("?", "a", "quantitative"),
    FieldQ("y", "b", "?"),
    FieldQ("color", "b", "nominal"),
    [FieldQ("x", "a", "quantitative") EXCEPT
       !.scale = "obj", !.scaleZero = "false", !.scaleType = "?"],
    AutoCountQ("x", "?") }

MarkPool == {"?", "bar", "point"}

SoftRules ==
  {SPEC_CONSTRAINTS[i].name : i \in {j \in 1..Len(SPEC_CONSTRAINTS) :
                                       ~SPEC_CONSTRAINTS[j].strict}}

\* Option maps, as the sets of their truthy keys.
OptPool ==
  { {},
    SoftRules \ {"omitAggregate", "omitRaw"},
    SoftRules \cup {"constraintManuallySpecifiedValue"} }

\* The values the driver enumerates for a wildcard of each property.
Candidates(prop) ==
  CASE prop = MARK      -> {"bar", "point"}
    [] prop = CHANNEL   -> {"x", "y", "color"}
    [] prop = TYPE      -> {"quantitative", "nominal"}
    [] prop = AGGREGATE -> {Undef, "mean"}
    [] prop = BIN       -> {"true", "false"}
    [] prop = AUTOCOUNT -> {"true", "false"}
    [] prop = getEncodingNestedProp("scale", "type") -> {"linear", "log"}
    [] prop = getEncodingNestedProp("scale", "zero") -> {"true", "false"}
    [] OTHER -> {}

EncodingProperties ==
  {CHANNEL, FIELD, TYPE, AGGREGATE, BIN, TIMEUNIT, SCALE, STACK, AUTOCOUNT,
   getEncodingNestedProp("scale", "zero"), getEncodingNestedProp("scale", "type")}

\* encQ[prop], or encQ[parent][child]
PropValue(encQ, prop) ==
  IF isEncodingNestedProp(prop) THEN NestedValue(encQ, prop[1], prop[2])
  ELSE encQ[prop[1]]

\* The (position, property key) pairs of a query that hold a wildcard.
EncodingWildcards(encodings) ==
  {<<ip[1], toKey(ip[2])>> :
     ip \in {q \in (1..Len(encodings)) \X EncodingProperties :
               isWildcard(PropValue(encodings[q[1]], q[2]))}}

\* new SpecQueryModel(specQ): the wildcard index is built from the query.
NewSpecQueryModel(specQ) ==
  [specQuery |-> specQ,
   wildcardIndex |-> [mark |-> isWildcard(specQ.mark),
                      encoding |-> EncodingWildcards(specQ.encodings)]]

\* setEncodingProperty: encQ[prop] = value, or encQ[parent][child] = value
SetProp(encQ, prop, value) ==
  IF prop = getEncodingNestedProp("scale", "zero") THEN [encQ EXCEPT !.scaleZero = value]
  ELSE IF prop = getEncodingNestedProp("scale", "type") THEN [encQ EXCEPT !.scaleType = value]
  ELSE [encQ EXCEPT ![prop[1]] = value]

(***************************************************************************)
(* State.                                                                  *)
(***************************************************************************)
VARIABLES
  index,      \* SPEC_CONSTRAINTS_BY_PROPERTY as built so far
  built,      \* how many constraints the reduce has folded in
  specM,      \* the SpecQueryModel of the search branch
  opt,        \* the option map
  pc,         \* "startup", "idle" (model made), "bound" (a property set, not
              \* yet checked), "checked" (checkSpec returned), "query",
              \* "rule", "rulechecked", "hasWildcard", "fromSpec",
              \* "enumeration"
  prop,       \* the property last set, the first argument of checkSpec
  result,     \* what the last checkSpec returned
  evaluated,  \* the rules whose satisfy that call ran
  invoked,    \* the rules whose predicate that call invoked
  ret,        \* the last query function called and what it returned
  spec        \* the Vega-Lite specification given to fromSpec

vars == <<index, built, specM, opt, pc, prop, result, evaluated, invoked, ret,
          spec>>

NoModel == NewSpecQueryModel([mark |-> Undef, encodings |-> <<>>])
NoRet == [fn |-> "none", value |-> FALSE]

\* A Vega-Lite specification: encoding is held as the array of its
\* <<channel, channelDef>> entries in key order; "undefined" is a key the
\* object does not have.
NoSpec ==
  [data |-> Undef, transform |-> Undef, mark |-> Undef, encoding |-> <<>>,
   config |-> Undef]

Init ==
  /\ index = EmptyPropIndex
  /\ built = 0
  /\ specM = NoModel
  /\ opt = {}
  /\ pc = "startup"
  /\ prop = MARK
  /\ result = "null"
  /\ evaluated = <<>>
  /\ invoked = <<>>
  /\ ret = NoRet
  /\ spec = NoSpec

\* One step of SPEC_CONSTRAINTS.reduce(...) at module load.
BuildIndex ==
  /\ pc = "startup"
  /\ built < Len(SPEC_CONSTRAINTS)
  /\ index' = IndexConstraint(index, SPEC_CONSTRAINTS[built + 1])
  /\ built' = built + 1
  /\ UNCHANGED <<specM, opt, pc, prop, result, evaluated, invoked, ret, spec>>

\* The driver makes the model of a search branch.
CreateModel ==
  /\ pc = "startup"
  /\ built = Len(SPEC_CONSTRAINTS)
  /\ \E mark \in MarkPool, n \in 0..MaxEncodings, o \in OptPool :
       \E encodings \in [1..n -> EncodingPool] :
         /\ specM' = NewSpecQueryModel([mark |-> mark, encodings |-> encodings])
         /\ opt' = o
  /\ pc' = "idle"
  /\ UNCHANGED <<index, built, prop, result, evaluated, invoked, ret, spec>>

\* The driver binds the mark wildcard.
SetMark ==
  /\ pc \in {"idle", "checked"}
  /\ result = "null"
  /\ isWildcard(specM.specQuery.mark)
  /\ \E value \in Candidates(MARK) :
       specM' = [specM EXCEPT !.specQuery.mark = value]
  /\ prop' = MARK
  /\ pc' = "bound"
  /\ UNCHANGED <<index, built, opt, result, evaluated, invoked, ret, spec>>

\* The driver binds one wildcard of one encoding.
SetEncodingProperty ==
  /\ pc \in {"idle", "checked"}
  /\ result = "null"
  /\ \E i \in 1..Len(specM.specQuery.encodings), p \in EncodingProperties :
       /\ isWildcard(PropValue(specM.specQuery.encodings[i], p))
       /\ \E value \in Candidates(p) :
            specM' = [specM EXCEPT !.specQuery.encodings[i] = SetProp(@, p, value)]
       /\ prop' = p
  /\ pc' = "bound"
  /\ UNCHANGED <<index, built, opt, result, evaluated, invoked, ret, spec>>

\* A check that drops the checked property from the wildcard index.
CheckSpecDroppingIndex ==
  /\ pc = "bound"
  /\ \E r \in {checkSpec(index, prop, specM, opt)} :
       /\ result' = r.result
       /\ evaluated' = r.evaluated
       /\ invoked' = r.invoked
  /\ specM' = [specM EXCEPT !.wildcardIndex.encoding = {e \in @ : e[2] # toKey(prop)}]
  /\ pc' = "checked"
  /\ UNCHANGED <<index, built, opt, prop, ret, spec>>

\* checkSpec(prop, wildcard, specM, schema, opt)
CheckSpec ==
  /\ pc = "bound"
  /\ \E r \in {checkSpec(index, prop, specM, opt)} :
       /\ result' = r.result
       /\ evaluated' = r.evaluated
       /\ invoked' = r.invoked
  /\ pc' = "checked"
  /\ UNCHANGED <<index, built, specM, opt, prop, ret, spec>>

Next == BuildIndex \/ CreateModel \/ SetMark \/ SetEncodingProperty \/ CheckSpec

Spec == Init /\ [][Next]_vars

(***************************************************************************)
(* The query functions of query/spec.ts, applied to queries drawn from     *)
(* QueryEncodingPool.                                                      *)
(***************************************************************************)
QueryEncodingPool ==
  { FieldQ("x", "a", "quantitative"),
    [FieldQ("x", "a", "quantitative") EXCEPT !.aggregate = "sum"],
    [FieldQ("x", "a", "quantitative") EXCEPT !.aggregate = "?"],
    FieldQ("y", "b", "nominal"),
    [FieldQ("y", "a", "quantitative") EXCEPT !.aggregate = "sum"],
    FieldQ("color", "c", "nominal"),
    [FieldQ("color", "a", "quantitative") EXCEPT !.aggregate = "sum"],
    [FieldQ("y", "a", "quantitative") EXCEPT !.stack = "zero"],
    [FieldQ("y", "a", "quantitative") EXCEPT !.stack = "?"],
    AutoCountQ("x", "true"),
    AutoCountQ("x", "false"),
    AutoCountQ("x", "?"),
    [NoEnc EXCEPT !.channel = "y", !.aggregate = "sum", !.stack = "zero"] }

QueryMarkPool == {"bar", "point"}

QueryInit ==
  /\ index = SPEC_CONSTRAINTS_BY_PROPERTY
  /\ built = Len(SPEC_CONSTRAINTS)
  /\ \E mark \in QueryMarkPool, n \in 0..MaxQueryEncodings :
       \E encodings \in [1..n -> QueryEncodingPool] :
         specM = NewSpecQueryModel([mark |-> mark, encodings |-> encodings])
  /\ opt = {}
  /\ pc = "query"
  /\ prop = MARK
  /\ result = "null"
  /\ evaluated = <<>>
  /\ invoked = <<>>
  /\ ret = NoRet
  /\ spec = NoSpec

Return(fn, value) ==
  /\ pc = "query"
  /\ ret' = [fn |-> fn, value |-> value]
  /\ UNCHANGED <<index, built, specM, opt, pc, prop, result, evaluated, invoked, spec>>

CallIsAggregate == Return("isAggregate", isAggregate(specM.specQuery))

CallIsExplicitStack == Return("isExplicitStack", isExplicitStack(specM.specQuery))

CallIsImplicitStack == Return("isImplicitStack", isImplicitStack(specM.specQuery))

CallIsStack == Return("isStack", isStack(specM.specQuery))

QueryNext ==
  CallIsAggregate \/ CallIsExplicitStack \/ CallIsImplicitStack \/ CallIsStack

QuerySpec == QueryInit /\ [][QueryNext]_vars

(***************************************************************************)
(* The rules called one at a time (RuleSpec): a model is made from a       *)
(* query, its channel wildcards may be set, and then one rule is asked or  *)
(* checkSpec is called once.                                               *)
(***************************************************************************)
\* The longest encodings array of a model a single rule is asked about.
MaxRuleEncodings == 2

RuleEncodingPool ==
  { FieldQ("x", "a", "quantitative"),
    [FieldQ("y", "a", "quantitative") EXCEPT !.bin = "true"],
    FieldQ("y", "b", "nominal"),
    [FieldQ("color", "t", "temporal") EXCEPT !.timeUnit = "year"],
    FieldQ("x", "t", "temporal"),
    FieldQ("?", "b", "ordinal"),
    FieldQ("y", "a", "?"),
    [FieldQ("x", "a", "quantitative") EXCEPT !.aggregate = "mean"],
    [FieldQ("y", "a", "quantitative") EXCEPT !.aggregate = "?"],
    AutoCountQ("x", "true"),
    AutoCountQ("x", "false"),
    AutoCountQ("y", "?") }

\* Every mark the rules handle, a mark they do not, and the wildcard.
RuleMarkPool == Marks \cup {"geoshape", "?"}

\* The values a channel wildcard is set to.
RuleChannels == {"x", "y", "color", "text"}

\* The rules that are asked on their own.
RuleNames ==
  {"noRepeatedChannel", "autoAddCount", "hasAllRequiredChannelsForMark",
   "omitAggregate", "omitRaw", "hasAppropriateGraphicTypeForMark"}

\* The (property, option map) pairs checkSpec is called with.
RuleChecks ==
  { [prop |-> MARK, opt |-> {"hasAppropriateGraphicTypeForMark"}],
    [prop |-> TYPE, opt |-> {"hasAppropriateGraphicTypeForMark"}],
    [prop |-> AGGREGATE, opt |-> {"omitAggregate", "omitRaw"}],
    [prop |-> AGGREGATE, opt |-> {"omitAggregate"}],
    [prop |-> AGGREGATE, opt |-> {"omitRaw"}] }

\* What the rule's own predicate does: returns true or false, or throws.
ConstraintResult(name, m, o) ==
  IF ConstraintThrows(name, m, o) THEN "error"
  ELSE IF ConstraintSatisfy(name, m, o) THEN "true" ELSE "false"

RuleInit ==
  /\ index = SPEC_CONSTRAINTS_BY_PROPERTY
  /\ built = Len(SPEC_CONSTRAINTS)
  /\ \E mark \in RuleMarkPool, n \in 0..MaxRuleEncodings :
       \E encodings \in [1..n -> RuleEncodingPool] :
         specM = NewSpecQueryModel([mark |-> mark, encodings |-> encodings])
  /\ opt = {}
  /\ pc = "rule"
  /\ prop = MARK
  /\ result = "null"
  /\ evaluated = <<>>
  /\ invoked = <<>>
  /\ ret = NoRet
  /\ spec = NoSpec

\* setEncodingProperty(i, CHANNEL, value) on a channel wildcard.
RuleSetChannel ==
  /\ pc = "rule" /\ ret = NoRet
  /\ \E i \in 1..Len(specM.specQuery.encodings), value \in RuleChannels :
       /\ isWildcard(specM.specQuery.encodings[i].channel)
       /\ specM' = [specM EXCEPT !.specQuery.encodings[i] = SetProp(@, CHANNEL, value)]
  /\ UNCHANGED <<index, built, opt, pc, prop, result, evaluated, invoked, ret, spec>>

\* c.satisfy(specM, schema, opt) for one rule c: value is what
\* SpecConstraintModel.satisfy gives, predicate what the rule's own
\* predicate gives on the same model.
CallSatisfy ==
  /\ pc = "rule" /\ ret = NoRet
  /\ \E name \in RuleNames :
       ret' = [fn |-> name,
               value |-> satisfy(SPEC_CONSTRAINT_INDEX[name], specM, opt),
               predicate |-> ConstraintResult(name, specM, opt)]
  /\ UNCHANGED <<index, built, specM, opt, pc, prop, result, evaluated, invoked, spec>>

\* checkSpec(prop, wildcard, specM, schema, opt), called once.
RuleCheckSpec ==
  /\ pc = "rule" /\ ret = NoRet
  /\ \E call \in RuleChecks :
       \E r \in {checkSpec(index, call.prop, specM, call.opt)} :
         /\ prop' = call.prop
         /\ opt' = call.opt
         /\ result' = r.result
         /\ evaluated' = r.evaluated
         /\ invoked' = r.invoked
  /\ pc' = "rulechecked"
  /\ UNCHANGED <<index, built, specM, ret, spec>>

RuleNext == RuleSetChannel \/ CallSatisfy \/ RuleCheckSpec

RuleSpec == RuleInit /\ [][RuleNext]_vars

(***************************************************************************)
(* hasWildcard (HasWildcardSpec): a query is made and hasWildcard is       *)
(* called on it with a list of excluded properties.                        *)
(***************************************************************************)
\* The longest encodings array of a query given to hasWildcard.
MaxWildcardEncodings == 2

HasWildcardEncodingPool ==
  { FieldQ("x", "a", "quantitative"),
    [FieldQ("y", "a", "quantitative") EXCEPT !.bin = "true"],
    FieldQ("?", "a", "quantitative"),
    FieldQ("y", "a", WILDCARD_OBJECT),
    [FieldQ("x", "a", "quantitative") EXCEPT !.scale = "obj", !.scaleType = "?"],
    [FieldQ("y", "a", "quantitative") EXCEPT !.scale = "?"] }

HasWildcardMarkPool == {"point", SHORT_WILDCARD, WILDCARD_OBJECT}

ExcludePool == {MARK, CHANNEL, TYPE, SCALE, getEncodingNestedProp("scale", "type")}

\* The characters of the strings the queries hold.
Characters(v) ==
  CASE v = "quantitative"
         -> <<"q", "u", "a", "n", "t", "i", "t", "a", "t", "i", "v", "e">>
    [] OTHER -> <<v>>

\* for (const childProp in propObj) with propObj.hasOwnProperty(childProp):
\* the <<key, value>> pairs of the own enumerable properties of encQ[parentProp].
\* A string has its characters under their indices; a boolean has none.
OwnProperties(encQ, parentProp) ==
  LET propObj == encQ[parentProp] IN
  IF propObj \in {Undef, "null", "true", "false"} THEN {}
  ELSE IF propObj = "obj"
  THEN {c \in {<<"zero", encQ.scaleZero>>, <<"type", encQ.scaleType>>} : c[2] # Undef}
  ELSE IF propObj = WILDCARD_OBJECT THEN {<<"enum", "array">>}
  ELSE {<<ToString(i - 1), Characters(propObj)[i]>> : i \in 1..Len(Characters(propObj))}

\* for (const key in encQ): the keys encQ has that are top-level properties
OwnTopLevelProperties(encQ) ==
  {key \in DOMAIN encQ : encQ[key] # Undef /\ isEncodingProperty(<<key>>)}

\* hasWildcard(specQ, {exclude})
hasWildcard(specQ, exclude) ==
  LET excluded == {toKey(p) : p \in exclude} IN
    \/ isWildcard(specQ.mark) /\ "mark" \notin excluded
    \/ \E i \in 1..Len(specQ.encodings) :
         \E parentProp \in OwnTopLevelProperties(specQ.encodings[i]) :
           \/ /\ isWildcard(specQ.encodings[i][parentProp])
              /\ parentProp \notin excluded
           \/ \E child \in OwnProperties(specQ.encodings[i], parentProp) :
                /\ child[1] \notin {"enum", "name"}
                /\ isWildcard(child[2])
                /\ toKey(getEncodingNestedProp(parentProp, child[1])) \notin excluded

HasWildcardInit ==
  /\ index = SPEC_CONSTRAINTS_BY_PROPERTY
  /\ built = Len(SPEC_CONSTRAINTS)
  /\ \E mark \in HasWildcardMarkPool, n \in 0..MaxWildcardEncodings :
       \E encodings \in [1..n -> HasWildcardEncodingPool] :
         specM = NewSpecQueryModel([mark |-> mark, encodings |-> encodings])
  /\ opt = {}
  /\ pc = "hasWildcard"
  /\ prop = MARK
  /\ result = "null"
  /\ evaluated = <<>>
  /\ invoked = <<>>
  /\ ret = NoRet
  /\ spec = NoSpec

\* hasWildcard(specQ, {exclude: exclude})
CallHasWildcard ==
  /\ pc = "hasWildcard"
  /\ ret = NoRet
  /\ \E exclude \in SUBSET ExcludePool :
       /\ opt' = exclude
       /\ ret' = [fn |-> "hasWildcard", value |-> hasWildcard(specM.specQuery, exclude)]
  /\ UNCHANGED <<index, built, specM, pc, prop, result, evaluated, invoked, spec>>

HasWildcardNext == CallHasWildcard

HasWildcardSpec == HasWildcardInit /\ [][HasWildcardNext]_vars

(***************************************************************************)
(* fromSpec (FromSpecSpec): a Vega-Lite specification is given to fromSpec.*)
(***************************************************************************)
\* The most channels the encoding of a specification given to fromSpec has.
MaxChannels == 2

\* A channel definition without any key.
NoChannelDef ==
  [field |-> Undef, type |-> Undef, aggregate |-> Undef, bin |-> Undef,
   timeUnit |-> Undef, scale |-> Undef, axis |-> Undef, legend |-> Undef,
   sort |-> Undef, stack |-> Undef, condition |-> Undef]

FieldDef(field, type) == [NoChannelDef EXCEPT !.field = field, !.type = type]

\* "{...}" is an object, "[]" an empty array, "{}" an empty object.
ChannelDefPool ==
  { FieldDef("a", "quantitative"),
    [FieldDef("a", "quantitative") EXCEPT !.scale = "null"],
    [FieldDef("a", "quantitative") EXCEPT !.bin = "null", !.sort = "ascending"],
    [FieldDef("b", "nominal") EXCEPT !.axis = "null", !.legend = "{...}"],
    [FieldDef("b", "nominal") EXCEPT !.legend = "null", !.axis = "{...}"],
    [FieldDef(Undef, "quantitative") EXCEPT !.aggregate = "count"],
    [FieldDef("c", "nominal") EXCEPT !.condition = "{...}"] }

FromSpecChannels == {"x", "y", "color"}

\* The specifications given to fromSpec: no channel is a key twice.
SpecPool ==
  { [data |-> data, transform |-> transform, mark |-> "point",
     encoding |-> encoding, config |-> config] :
      data \in {Undef, "{...}"}, transform \in {Undef, "[]"},
      config \in {Undef, "{}"},
      encoding \in
        UNION { {e \in [1..n -> FromSpecChannels \X ChannelDefPool] :
                   \A i, j \in 1..n : i # j => e[i][1] # e[j][1]} :
                n \in 0..MaxChannels } }

\* A version that leaves out a top-level value that is empty.
PassThroughNonEmpty(value) ==
  IF Truthy(value) /\ value \notin {"{}", "[]"} THEN value ELSE Undef

\* spec.data ? {data: spec.data} : {}, extended into the result
PassThrough(value) == IF Truthy(value) THEN value ELSE Undef

\* The callback without the conversion of null.
ChannelEncQVerbatim(channel, channelDef) ==
  LET encQ == [p \in DOMAIN channelDef \cup {"channel"} |->
                 IF p = "channel" THEN channel
                 ELSE IF isEncodingProperty(<<p>>) THEN channelDef[p]
                 ELSE Undef]
  IN IF isFieldQuery(encQ) /\ encQ.aggregate = "count" /\ ~Truthy(encQ.field)
     THEN [encQ EXCEPT !.field = "*"]
     ELSE encQ

\* The callback of keys(spec.encoding).map(...): the encoding query made
\* from a channel and its definition.
ChannelEncQ(channel, channelDef) ==
  LET encQ == [p \in DOMAIN channelDef \cup {"channel"} |->
                 IF p = "channel" THEN channel
                 ELSE IF isEncodingProperty(<<p>>) /\ channelDef[p] # Undef
                 THEN IF p \in {"bin", "scale", "axis", "legend"} /\ channelDef[p] = "null"
                      THEN "false"
                      ELSE channelDef[p]
                 ELSE Undef]
  IN IF isFieldQuery(encQ) /\ encQ.aggregate = "count" /\ ~Truthy(encQ.field)
     THEN [encQ EXCEPT !.field = "*"]
     ELSE encQ

\* fromSpec(spec)
fromSpec(s) ==
  [data |-> PassThrough(s.data),
   transform |-> PassThrough(s.transform),
   mark |-> s.mark,
   encodings |-> [i \in 1..Len(s.encoding) |->
                    ChannelEncQ(s.encoding[i][1], s.encoding[i][2])],
   config |-> PassThrough(s.config)]

FromSpecInit ==
  /\ index = SPEC_CONSTRAINTS_BY_PROPERTY
  /\ built = Len(SPEC_CONSTRAINTS)
  /\ specM = NoModel
  /\ opt = {}
  /\ pc = "fromSpec"
  /\ prop = MARK
  /\ result = "null"
  /\ evaluated = <<>>
  /\ invoked = <<>>
  /\ ret = NoRet
  /\ spec \in SpecPool

\* fromSpec(spec)
CallFromSpec ==
  /\ pc = "fromSpec"
  /\ ret.fn = NoRet.fn
  /\ ret' = [fn |-> "fromSpec", value |-> fromSpec(spec)]
  /\ UNCHANGED <<index, built, specM, opt, pc, prop, result, evaluated, invoked, spec>>

FromSpecNext == CallFromSpec

FromSpecSpec == FromSpecInit /\ [][FromSpecNext]_vars

(***************************************************************************)
(* The rules that tell an enumerated value from a manually specified one   *)
(* (EnumerationSpec): a model is made from a query, channel and field      *)
(* wildcards may be set, and then one rule is asked.                       *)
(***************************************************************************)
\* The longest encodings array of a model of EnumerationSpec.
MaxEnumerationEncodings == 2

ValueQ(channel, value) == [NoEnc EXCEPT !.channel = channel, !.value = value]

EnumerationEncodingPool ==
  { FieldQ("?", "a", "quantitative"),
    FieldQ("size", "a", "quantitative"),
    FieldQ("color", "b", "nominal"),
    FieldQ("x", "?", "quantitative"),
    FieldQ("y", "a", Undef),
    ValueQ("shape", "circle"),
    AutoCountQ("size", "false"),
    AutoCountQ("?", "false"),
    AutoCountQ("y", "true") }

EnumerationMarkPool == {"bar", "tick", "point"}

EnumerationOptPool == { {}, {"constraintManuallySpecifiedValue"} }

\* The values a wildcard of each property is set to.
EnumerationCandidates(p) ==
  CASE p = CHANNEL -> {"x", "size", "color"}
    [] p = FIELD -> {"a", "b"}
    [] OTHER -> {}

EnumerationRuleNames ==
  {"omitBarTickWithSize", "omitMultipleNonPositionalChannels",
   "omitRepeatedField", "autoAddCount"}

EnumerationInit ==
  /\ index = SPEC_CONSTRAINTS_BY_PROPERTY
  /\ built = Len(SPEC_CONSTRAINTS)
  /\ \E mark \in EnumerationMarkPool, n \in 0..MaxEnumerationEncodings :
       \E encodings \in [1..n -> EnumerationEncodingPool] :
         specM = NewSpecQueryModel([mark |-> mark, encodings |-> encodings])
  /\ opt \in EnumerationOptPool
  /\ pc = "enumeration"
  /\ prop = MARK
  /\ result = "null"
  /\ evaluated = <<>>
  /\ invoked = <<>>
  /\ ret = NoRet
  /\ spec = NoSpec

\* specM.setEncodingProperty(i, prop, value, wildcard) for channel and field
EnumerateProperty ==
  /\ pc = "enumeration" /\ ret = NoRet
  /\ \E i \in 1..Len(specM.specQuery.encodings), p \in {CHANNEL, FIELD} :
       /\ isWildcard(PropValue(specM.specQuery.encodings[i], p))
       /\ \E value \in EnumerationCandidates(p) :
            specM' = [specM EXCEPT !.specQuery.encodings[i] = SetProp(@, p, value)]
  /\ UNCHANGED <<index, built, opt, pc, prop, result, evaluated, invoked, ret, spec>>

\* c.satisfy(specM, schema, opt) for one rule c
AskRule ==
  /\ pc = "enumeration" /\ ret = NoRet
  /\ \E name \in EnumerationRuleNames :
       ret' = [fn |-> name,
               value |-> satisfy(SPEC_CONSTRAINT_INDEX[name], specM, opt),
               predicate |-> ConstraintResult(name, specM, opt)]
  /\ UNCHANGED <<index, built, specM, opt, pc, prop, result, evaluated, invoked, spec>>

EnumerationNext == EnumerateProperty \/ AskRule

EnumerationSpec == EnumerationInit /\ [][EnumerationNext]_vars

(***************************************************************************)
(* Properties of the checker (under Spec).                                 *)
(***************************************************************************)
Rules == {SPEC_CONSTRAINTS[i] : i \in 1..Len(SPEC_CONSTRAINTS)}

Expensive ==
  {"hasAppropriateGraphicTypeForMark", "omitNonLinearScaleTypeWithStack",
   "omitNonSumStack", "omitTableWithOcclusionIfAutoAddCount"}

\* The rules listed under the checked property, in the order checkSpec
\* walks them.
Listed == PropIndexGet(index, prop)

Rule(j) == SPEC_CONSTRAINT_INDEX[Listed[j]]

Enabled(c) == c.strict \/ c.name \in opt

InSeq(x, seq) == \E i \in 1..Len(seq) : seq[i] = x

Violation(c) == "(spec) " \o c.name

\* A usable encoding: one that is not a disabled auto-count.
Usable(encQ) == encQ.autoCount # "false"

\* Some declared property of c is still a wildcard where it applies.
StillWildcard(c) ==
  \E k \in 1..Len(c.properties) :
    LET p == c.properties[k] IN
      IF p = MARK THEN specM.specQuery.mark = SHORT_WILDCARD
      ELSE \E i \in 1..Len(specM.specQuery.encodings) :
             LET encQ == specM.specQuery.encodings[i] IN
               /\ Usable(encQ)
               /\ IF Len(p) = 2
                  THEN encQ[p[1]] = "obj" /\ PropValue(encQ, p) = SHORT_WILDCARD
                  ELSE encQ[p[1]] = SHORT_WILDCARD

\* C1: checkSpec never returns the name of a rule that does not tolerate
\* wildcards while one of the rule's declared properties is still a wildcard.
C1_SkipOnWildcard ==
  pc = "checked" =>
    \A c \in Rules :
      (~c.allowWildcardForProperties /\ StillWildcard(c)) => result # Violation(c)

\* A rule that is walked and enabled, whose predicate is false on the model,
\* and which is not reported because a declared property is a wildcard.
C1_Witness ==
  /\ pc = "checked"
  /\ \E c \in Rules :
       /\ ~c.allowWildcardForProperties /\ StillWildcard(c)
       /\ InSeq(c.name, evaluated)
       /\ ~ConstraintThrows(c.name, specM, opt)
       /\ ~ConstraintSatisfy(c.name, specM, opt)
       /\ result = "null"

\* The wildcards that are left in a model, as (position, property) pairs;
\* position 0 is the mark.
Remaining(m) ==
  (IF isWildcard(m.specQuery.mark) THEN {<<0, MARK>>} ELSE {})
    \cup {q \in (1..Len(m.specQuery.encodings)) \X EncodingProperties :
            isWildcard(PropValue(m.specQuery.encodings[q[1]], q[2]))}

Bind(m, q, value) ==
  IF q[1] = 0 THEN [m EXCEPT !.specQuery.mark = value]
  ELSE [m EXCEPT !.specQuery.encodings[q[1]] = SetProp(@, q[2], value)]

\* The fully concrete models reachable from m by binding its wildcards to
\* candidate values.
RECURSIVE Completions(_)
Completions(m) ==
  IF Remaining(m) = {} THEN {m}
  ELSE LET q == CHOOSE r \in Remaining(m) : TRUE IN
       UNION {Completions(Bind(m, q, value)) : value \in Candidates(q[2])}

\* C2: when checkSpec returns the name of rule R for a partial model, R's
\* predicate is false on every fully concrete model reachable from it.
C2_NoFalseRejection ==
  pc = "checked" =>
    \A c \in Rules :
      result = Violation(c) =>
        \A m \in Completions(specM) :
          ~ConstraintThrows(c.name, m, opt) => ~ConstraintSatisfy(c.name, m, opt)

\* Where checkSpec stopped walking Listed: at the rule that made it return
\* or raise, or past the end.
StoppedAt ==
  IF result = "null" THEN Len(Listed)
  ELSE CHOOSE j \in 1..Len(Listed) : Listed[j] = evaluated[Len(evaluated)]

\* C3 as stated: a rule listed under the checked property is evaluated iff it
\* is strict or the option map holds a truthy value under its name.
C3_EvaluatedIffEnabled ==
  pc = "checked" =>
    \A j \in 1..Len(Listed) : InSeq(Listed[j], evaluated) <=> Enabled(Rule(j))

\* C3: a rule that checkSpec reaches before it returns is evaluated iff it is
\* strict or the option map holds a truthy value under its name; a rule that
\* is neither is never evaluated and never reported.
C3_ReachedEvaluatedIffEnabled ==
  pc = "checked" =>
    \A j \in 1..Len(Listed) :
      /\ InSeq(Listed[j], evaluated) <=> (Enabled(Rule(j)) /\ j <= StoppedAt)
      /\ ~Enabled(Rule(j)) => result # Violation(Rule(j))

\* With an empty option map a strict rule is evaluated, and a rule that is
\* not strict is left alone although its predicate is false on the model.
C3_Witness ==
  /\ pc = "checked" /\ opt = {} /\ result = "null"
  /\ \E j \in 1..Len(Listed) : Rule(j).strict /\ InSeq(Listed[j], evaluated)
  /\ \E j \in 1..Len(Listed) :
       /\ ~Rule(j).strict /\ ~InSeq(Listed[j], evaluated)
       /\ ~ConstraintThrows(Listed[j], specM, opt)
       /\ ~ConstraintSatisfy(Listed[j], specM, opt)

Fails(j) == Enabled(Rule(j)) /\ satisfy(Rule(j), specM, opt) = "false"

Passes(j) == Enabled(Rule(j)) => satisfy(Rule(j), specM, opt) = "true"

\* C4: checkSpec returns the name of the first enabled rule, in the order of
\* the list, whose check fails, and evaluates no rule after it; an expensive
\* rule that would fail is not invoked when a cheap one fails; the result is
\* null iff every enabled rule passes.
C4_FirstViolation ==
  pc = "checked" =>
    /\ result = "null" <=> \A j \in 1..Len(Listed) : Passes(j)
    /\ result \notin {"null", "error"} =>
         \E j \in 1..Len(Listed) :
           /\ result = Violation(Rule(j))
           /\ Fails(j)
           /\ \A i \in 1..(j - 1) : Passes(i)
           /\ \A i \in (j + 1)..Len(Listed) :
                ~InSeq(Listed[i], evaluated) /\ ~InSeq(Listed[i], invoked)
    /\ \A j2 \in 1..Len(Listed) :
         (/\ Listed[j2] \in Expensive /\ Fails(j2)
          /\ \E j1 \in 1..Len(Listed) : Listed[j1] \notin Expensive /\ Fails(j1))
           => /\ ~InSeq(Listed[j2], invoked)
              /\ result # Violation(Rule(j2))
              /\ result # "null"
    /\ \A i, j \in 1..Len(Listed) :
         (Listed[i] \in Expensive /\ Listed[j] \notin Expensive) => j < i

\* A cheap rule and an expensive rule are both enabled and both fail; the
\* cheap one is reported.
C4_Witness ==
  /\ pc = "checked"
  /\ \E j1, j2 \in 1..Len(Listed) :
       /\ Listed[j1] \notin Expensive /\ Listed[j2] \in Expensive
       /\ Fails(j1) /\ Fails(j2)
       /\ result = Violation(Rule(j1))

Count(name, seq) == Cardinality({i \in 1..Len(seq) : seq[i] = name})

\* C5: while the index is built, the list under each property a constraint
\* declares holds the constraint exactly once if the reduce has passed the
\* constraint and not at all otherwise, and no list holds a constraint that
\* does not declare its property; so once it is built every constraint is
\* listed exactly once under each of its properties.  No later step writes
\* the index.
C5_IndexComplete ==
  pc = "startup" =>
    /\ \A n \in 1..Len(SPEC_CONSTRAINTS) :
         \A k \in 1..Len(SPEC_CONSTRAINTS[n].properties) :
           Count(SPEC_CONSTRAINTS[n].name,
                 PropIndexGet(index, SPEC_CONSTRAINTS[n].properties[k]))
             = IF n <= built THEN 1 ELSE 0
    /\ \A key \in DOMAIN index : \A i \in 1..Len(index[key]) :
         \E n \in 1..Len(SPEC_CONSTRAINTS) :
           /\ SPEC_CONSTRAINTS[n].name = index[key][i]
           /\ \E k \in 1..Len(SPEC_CONSTRAINTS[n].properties) :
                toKey(SPEC_CONSTRAINTS[n].properties[k]) = key

\* The built index: every constraint is in it, one list holds several
\* constraints, and one constraint is in several lists.
C5_Witness ==
  /\ pc = "startup" /\ built = Len(SPEC_CONSTRAINTS)
  /\ \A n \in 1..Len(SPEC_CONSTRAINTS) :
       InSeq(SPEC_CONSTRAINTS[n].name,
             PropIndexGet(index, SPEC_CONSTRAINTS[n].properties[1]))
  /\ \E key \in DOMAIN index : Len(index[key]) > 1
  /\ \E n \in 1..Len(SPEC_CONSTRAINTS) :
       /\ Len(SPEC_CONSTRAINTS[n].properties) > 1
       /\ InSeq(SPEC_CONSTRAINTS[n].name,
                PropIndexGet(index, SPEC_CONSTRAINTS[n].properties[2]))

(***************************************************************************)
(* Properties of the query functions (under QuerySpec).                    *)
(***************************************************************************)
Encodings == specM.specQuery.encodings

Returned(fn) == pc = "query" /\ ret.fn = fn

\* A value that is present, not a wildcard, and truthy.
ConcreteTruthy(v) == v # Undef /\ v # SHORT_WILDCARD /\ v \notin {"null", "false", ""}

OnChannel(channel) == \E i \in 1..Len(Encodings) : Encodings[i].channel = channel

Permuted(encodings, f) == [i \in 1..Len(encodings) |-> encodings[f[i]]]

\* C6: isImplicitStack returns true only if the encodings hold an encoding on
\* x, one on y and one on color, and its result is the same for every order of
\* the encodings.
C6_ImplicitStackNeedsXYColor ==
  Returned("isImplicitStack") =>
    /\ ret.value => (OnChannel("x") /\ OnChannel("y") /\ OnChannel("color"))
    /\ \A f \in Permutations(1..Len(Encodings)) :
         isImplicitStack([mark |-> specM.specQuery.mark,
                          encodings |-> Permuted(Encodings, f)]) = ret.value

\* C7: isImplicitStack returns true only if some encoding on x or y carries a
\* concrete aggregate or is an enabled auto-count.
C7_ImplicitStackNeedsAggregate ==
  (Returned("isImplicitStack") /\ ret.value) =>
    \E i \in 1..Len(Encodings) :
      /\ Encodings[i].channel \in {"x", "y"}
      /\ \/ ConcreteTruthy(Encodings[i].aggregate)
         \/ Encodings[i].autoCount = "true"

\* C8: isImplicitStack is false for every specification whose mark is not a
\* stackable mark (bar, area).
C8_StackableMarkGate ==
  (Returned("isImplicitStack") /\ specM.specQuery.mark \notin {"bar", "area"})
    => ~ret.value

\* C9: isExplicitStack is true iff some field-backed encoding has a concrete,
\* truthy stack; isStack is explicit or implicit; never both explicit and
\* implicit.
C9_ExplicitStack ==
  /\ Returned("isExplicitStack") =>
       (ret.value <=> \E i \in 1..Len(Encodings) :
                        /\ isFieldQuery(Encodings[i])
                        /\ ConcreteTruthy(Encodings[i].stack))
  /\ Returned("isStack") =>
       (ret.value <=> \/ \E i \in 1..Len(Encodings) :
                           /\ isFieldQuery(Encodings[i])
                           /\ ConcreteTruthy(Encodings[i].stack)
                      \/ isImplicitStack(specM.specQuery))
  /\ Returned("isImplicitStack") =>
       ~(ret.value /\ \E i \in 1..Len(Encodings) :
                        /\ isFieldQuery(Encodings[i])
                        /\ ConcreteTruthy(Encodings[i].stack))

\* An explicit stack whose x, y and color encodings would also make it an
\* implicit one, next to a wildcarded stack.
C9_Witness ==
  /\ Returned("isImplicitStack") /\ ~ret.value
  /\ isExplicitStack(specM.specQuery)
  /\ OnChannel("x") /\ OnChannel("color")
  /\ \E i \in 1..Len(Encodings) :
       Encodings[i].channel = "x" /\ Encodings[i].aggregate = "sum"

\* C10: isAggregate is true iff some encoding is field-backed with a concrete,
\* non-empty aggregate or is an enabled auto-count.
C10_IsAggregate ==
  Returned("isAggregate") =>
    (ret.value <=> \E i \in 1..Len(Encodings) :
                     \/ (isFieldQuery(Encodings[i]) /\ ConcreteTruthy(Encodings[i].aggregate))
                     \/ Encodings[i].autoCount = "true")

\* Not aggregate although an aggregate is wildcarded, an auto-count is
\* disabled and an encoding that is not field-backed carries an aggregate.
C10_Witness ==
  /\ Returned("isAggregate") /\ ~ret.value
  /\ \E i \in 1..Len(Encodings) : Encodings[i].aggregate = "?"
  /\ \E i \in 1..Len(Encodings) : Encodings[i].autoCount = "false"
  /\ \E i \in 1..Len(Encodings) :
       ~isFieldQuery(Encodings[i]) /\ Encodings[i].aggregate = "sum"

(***************************************************************************)
(* Properties of single rules (under RuleSpec).                            *)
(***************************************************************************)
Asked(name) == pc = "rule" /\ ret.fn = name

\* The usable encodings are those that are not a disabled auto-count.
UsableIndices == {i \in 1..Len(Encodings) : Encodings[i].autoCount # "false"}

EnabledAutoCountIndices == {i \in UsableIndices : Encodings[i].autoCount = "true"}

\* Nominal, ordinal or key typed, temporal with a time unit, or quantitative
\* with a bin.
CountedField(encQ) ==
  \/ encQ.type \in {"nominal", "ordinal", "key"}
  \/ encQ.type = "temporal" /\ encQ.timeUnit \notin {Undef, "null", "false"}
  \/ encQ.type = "quantitative" /\ encQ.bin \notin {Undef, "null", "false"}

\* C11 as stated: with an enabled auto-count among the usable encodings,
\* autoAddCount is satisfied iff every other usable encoding is nominal,
\* ordinal or key typed, temporal with a time unit, or quantitative with a bin.
C11_AutoCountOthersCounted ==
  (Asked("autoAddCount") /\ EnabledAutoCountIndices # {}) =>
    (ret.value = "true" <=>
       \A i \in UsableIndices \ EnabledAutoCountIndices : CountedField(Encodings[i]))

\* C11: with an enabled auto-count among the usable encodings, autoAddCount
\* is satisfied iff every usable encoding that is not an auto-count (enabled
\* or still a wildcard) is nominal, ordinal or key typed, temporal with a
\* time unit, or quantitative with a bin.
C11_AutoCountFieldsCounted ==
  (Asked("autoAddCount") /\ EnabledAutoCountIndices # {}) =>
    /\ ret.value = ret.predicate
    /\ ret.value = "true" <=>
         \A i \in UsableIndices :
           Encodings[i].autoCount = Undef => CountedField(Encodings[i])

\* An enabled auto-count on x beside a nominal field on y: satisfied.
C11_Witness ==
  /\ Asked("autoAddCount") /\ ret.value = "true"
  /\ specM.specQuery.mark = "point"
  /\ Len(Encodings) = 2
  /\ \E i, j \in 1..2 :
       /\ Encodings[i].channel = "x" /\ Encodings[i].autoCount = "true"
       /\ Encodings[j].channel = "y" /\ Encodings[j].type = "nominal"

\* A field encoding that may still be counted: quantitative without a bin,
\* temporal without a time unit, or nominal or ordinal.
PlausibleCountTarget(encQ) ==
  \/ encQ.type = "quantitative" /\ encQ.bin \in {Undef, "null", "false"}
  \/ encQ.type = "temporal" /\ encQ.timeUnit \in {Undef, "null", "false"}
  \/ encQ.type \in {"nominal", "ordinal"}

\* A field encoding whose bin, time unit or type is still a wildcard.
Ambiguous(encQ) == isWildcard(encQ.bin) \/ isWildcard(encQ.timeUnit) \/ isWildcard(encQ.type)

\* C12: with no enabled auto-count and no auto-count still a wildcard,
\* autoAddCount is satisfied iff at least one field encoding is a plausible
\* count target (unbinned quantitative, temporal without a time unit, nominal
\* or ordinal) or still ambiguous (bin, time unit or type a wildcard).
C12_NoAutoCountNeedsTarget ==
  (/\ Asked("autoAddCount")
   /\ \A i \in 1..Len(Encodings) : Encodings[i].autoCount \notin {"true", "?"}) =>
    (ret.value = "true" <=>
       \E i \in 1..Len(Encodings) :
         /\ isFieldQuery(Encodings[i])
         /\ PlausibleCountTarget(Encodings[i]) \/ Ambiguous(Encodings[i]))

ChannelsConcrete == \A i \in 1..Len(Encodings) : ~isWildcard(Encodings[i].channel)

\* Some usable encoding is on the channel.
Uses(channel) == \E i \in UsableIndices : Encodings[i].channel = channel

\* C13: with the mark and every channel concrete, hasAllRequiredChannelsForMark
\* is satisfied for line and area iff x and y are both used, for text iff the
\* text channel is used, and for bar, circle, square, tick, rule and rect iff
\* x or y is used.
C13_RequiredChannels ==
  (Asked("hasAllRequiredChannelsForMark") /\ ChannelsConcrete) =>
    LET mark == specM.specQuery.mark IN
      /\ mark \in {"line", "area"} =>
           (ret.value = "true" <=> Uses("x") /\ Uses("y"))
      /\ mark = "text" => (ret.value = "true" <=> Uses("text"))
      /\ mark \in {"bar", "circle", "square", "tick", "rule", "rect"} =>
           (ret.value = "true" <=> Uses("x") \/ Uses("y"))

\* A text mark with no encoding on the text channel: violated.
C13_Witness ==
  /\ Asked("hasAllRequiredChannelsForMark") /\ ChannelsConcrete
  /\ specM.specQuery.mark = "text" /\ Len(Encodings) > 0 /\ ~Uses("text")
  /\ ret.value = "false"

\* The query had a wildcard on the channel of some encoding.
HadChannelWildcard == \E e \in specM.wildcardIndex.encoding : e[2] = "channel"

UnknownMark == specM.specQuery.mark \notin Marks \cup {SHORT_WILDCARD}

\* C15: a concrete mark outside the handled set makes the predicate of
\* hasAllRequiredChannelsForMark and of hasAppropriateGraphicTypeForMark
\* raise an error, and a checkSpec walk that invokes either predicate on such
\* a mark ends with the error: it returns neither null nor a rule's name.
C15_UnknownMarkThrows ==
  /\ (/\ UnknownMark
      /\ Asked("hasAllRequiredChannelsForMark")
           \/ Asked("hasAppropriateGraphicTypeForMark")) =>
       /\ ret.predicate = "error"
       /\ ret.value \in {"true", "error"}
       /\ ret.value = "true" =>
            ~ReachesPredicate(SPEC_CONSTRAINT_INDEX[ret.fn], specM)
  /\ (/\ pc = "rulechecked" /\ UnknownMark
      /\ \/ InSeq("hasAllRequiredChannelsForMark", invoked)
         \/ InSeq("hasAppropriateGraphicTypeForMark", invoked)) =>
       result = "error"

\* A walk under type that invokes hasAppropriateGraphicTypeForMark on a
\* geoshape mark.
C15_Witness ==
  /\ pc = "rulechecked" /\ specM.specQuery.mark = "geoshape"
  /\ InSeq("hasAppropriateGraphicTypeForMark", invoked)
  /\ result = "error"

\* Every aggregate and every autoCount of the query is concrete.
AggregateConcrete ==
  \A i \in 1..Len(Encodings) :
    ~isWildcard(Encodings[i].aggregate) /\ ~isWildcard(Encodings[i].autoCount)

\* An aggregate specification: a field encoding with an aggregate or an
\* enabled auto-count.
AggregateSide ==
  \E i \in 1..Len(Encodings) :
    \/ Encodings[i].autoCount = Undef /\ ConcreteTruthy(Encodings[i].aggregate)
    \/ Encodings[i].autoCount = "true"

\* C19: when every aggregate and autoCount is concrete, omitAggregate is
\* violated iff the specification is aggregate and omitRaw is violated iff
\* it is not, so exactly one of the two is satisfied; a walk under aggregate
\* with both enabled rejects every such model, and with one enabled it
\* rejects that rule's side and rejects by that rule no model of the other.
C19_OmitAggregateOmitRawExclusive ==
  AggregateConcrete =>
    /\ Asked("omitAggregate") => (ret.value = "false" <=> AggregateSide)
    /\ Asked("omitRaw") => (ret.value = "false" <=> ~AggregateSide)
    /\ (Asked("omitAggregate") \/ Asked("omitRaw")) =>
         /\ satisfy(SPEC_CONSTRAINT_INDEX["omitAggregate"], specM, opt)
              # satisfy(SPEC_CONSTRAINT_INDEX["omitRaw"], specM, opt)
         /\ ret.value \in {"true", "false"}
    /\ (pc = "rulechecked" /\ prop = AGGREGATE) =>
         /\ opt = {"omitAggregate", "omitRaw"} => result # "null"
         /\ opt = {"omitAggregate"} =>
              /\ AggregateSide => result # "null"
              /\ result = Violation(SPEC_CONSTRAINT_INDEX["omitAggregate"]) => AggregateSide
              /\ result # Violation(SPEC_CONSTRAINT_INDEX["omitRaw"])
         /\ opt = {"omitRaw"} =>
              /\ ~AggregateSide => result # "null"
              /\ result = Violation(SPEC_CONSTRAINT_INDEX["omitRaw"]) => ~AggregateSide
              /\ result # Violation(SPEC_CONSTRAINT_INDEX["omitAggregate"])

\* A raw model rejected by omitRaw in a walk with both rules enabled.
C19_Witness ==
  /\ pc = "rulechecked" /\ prop = AGGREGATE /\ opt = {"omitAggregate", "omitRaw"}
  /\ AggregateConcrete /\ ~AggregateSide /\ Len(Encodings) > 0
  /\ result = Violation(SPEC_CONSTRAINT_INDEX["omitRaw"])

\* C20: noRepeatedChannel is satisfied iff no concrete channel occurs on two
\* usable encodings; encodings whose channel is a wildcard never violate it.
C20_NoRepeatedChannel ==
  Asked("noRepeatedChannel") =>
    /\ ret.value = "true" <=>
         ~\E i, j \in UsableIndices :
             /\ i # j
             /\ ~isWildcard(Encodings[i].channel)
             /\ Encodings[i].channel = Encodings[j].channel
    /\ (\A i \in UsableIndices : isWildcard(Encodings[i].channel)) => ret.value = "true"

\* Two encodings with a wildcard channel each: satisfied.
C20_Witness ==
  /\ Asked("noRepeatedChannel") /\ ret.value = "true"
  /\ Len(Encodings) = 2
  /\ isWildcard(Encodings[1].channel) /\ isWildcard(Encodings[2].channel)

(***************************************************************************)
(* Properties of hasWildcard (under HasWildcardSpec).                      *)
(***************************************************************************)
\* C16: hasWildcard(specQ, {exclude}) returns true iff the mark, or some
\* top-level or nested property of some encoding, holds a wildcard and is not
\* in the exclusion list; it returns false when no property holds a wildcard
\* and when every property that holds one is excluded.
C16_HasWildcardHonoursExclude ==
  (pc = "hasWildcard" /\ ret.fn = "hasWildcard") =>
    (ret.value <=>
       \/ isWildcard(specM.specQuery.mark) /\ MARK \notin opt
       \/ \E i \in 1..Len(Encodings), p \in EncodingProperties :
            isWildcard(PropValue(Encodings[i], p)) /\ p \notin opt)

(***************************************************************************)
(* Properties of fromSpec (under FromSpecSpec).                            *)
(***************************************************************************)
Converted == pc = "fromSpec" /\ ret.fn = "fromSpec"

\* The value a channel-local property has after the conversion of null.
NullToFalse(key, value) ==
  IF key \in {"bin", "scale", "axis", "legend"} /\ value = "null" THEN "false" ELSE value

\* C17 as stated: the result has one entry per channel of the source, in
\* channel order, and every channel-local value equals the source value
\* except that null becomes false for bin, scale, axis and legend; nothing
\* else is added, changed or dropped.
C17_ChannelsVerbatim ==
  Converted =>
    /\ Len(ret.value.encodings) = Len(spec.encoding)
    /\ \A i \in 1..Len(spec.encoding) :
         LET encQ == ret.value.encodings[i]
             channelDef == spec.encoding[i][2]
         IN /\ encQ.channel = spec.encoding[i][1]
            /\ DOMAIN encQ = DOMAIN channelDef \cup {"channel"}
            /\ \A key \in DOMAIN channelDef :
                 encQ[key] = NullToFalse(key, channelDef[key])

\* C17: the result has one entry per channel of the source, in channel
\* order, and every channel-local value that is an encoding property equals
\* the source value except that null becomes false for bin, scale, axis and
\* legend and that a count aggregate without a field gets the field '*';
\* a key that is not an encoding property is dropped, and nothing else is
\* added, changed or dropped.
C17_ChannelsVerbatimButCountField ==
  Converted =>
    /\ Len(ret.value.encodings) = Len(spec.encoding)
    /\ \A i \in 1..Len(spec.encoding) :
         LET encQ == ret.value.encodings[i]
             channelDef == spec.encoding[i][2]
         IN /\ encQ.channel = spec.encoding[i][1]
            /\ DOMAIN encQ = DOMAIN channelDef \cup {"channel"}
            /\ \A key \in DOMAIN channelDef :
                 encQ[key] =
                   IF key = "field" /\ channelDef.aggregate = "count" /\ channelDef.field = Undef
                   THEN "*"
                   ELSE IF key = "condition" THEN Undef
                   ELSE NullToFalse(key, channelDef[key])

\* Two channels, the second with scale: null, which comes out as false.
C17_Witness ==
  /\ Converted
  /\ Len(spec.encoding) = 2
  /\ spec.encoding[1][1] = "x" /\ spec.encoding[2][1] = "y"
  /\ spec.encoding[2][2].scale = "null"
  /\ ret.value.encodings[1].channel = "x"
  /\ ret.value.encodings[2].channel = "y"
  /\ ret.value.encodings[2].scale = "false"

\* C18: data, transform and config are in the result iff they are in the
\* source, with the same value; a key the source does not have is left out.
C18_TopLevelPassThrough ==
  Converted =>
    /\ ret.value.data = spec.data
    /\ ret.value.transform = spec.transform
    /\ ret.value.config = spec.config

\* A source with an empty config and without data.
C18_Witness ==
  /\ Converted
  /\ spec.config = "{}" /\ spec.data = Undef /\ spec.transform = "[]"
  /\ ret.value.config = "{}" /\ ret.value.data = Undef

(***************************************************************************)
(* Properties of the rules about enumerated values (under EnumerationSpec).*)
(***************************************************************************)
AskedOf(name) == pc = "enumeration" /\ ret.fn = name

ManuallySpecifiedValue == "constraintManuallySpecifiedValue" \in opt

\* The channel of encoding i was a wildcard of the query.
ChannelEnumerated(i) == <<i, "channel">> \in specM.wildcardIndex.encoding

\* The field of encoding i was a wildcard of the query.
FieldEnumerated(i) == <<i, "field">> \in specM.wildcardIndex.encoding

\* The usable encodings on the size channel.
SizeUsed == {i \in UsableIndices : Encodings[i].channel = "size"}

\* C21: with mark bar or tick and the size channel used by a usable
\* encoding, omitBarTickWithSize is violated if
\* constraintManuallySpecifiedValue is set and otherwise is violated iff the
\* size channel of that used encoding was enumerated from a wildcard; any
\* other mark, or a specification without a used size channel, is accepted.
C21_SizeOnBarTick ==
  AskedOf("omitBarTickWithSize") =>
    IF specM.specQuery.mark \in {"bar", "tick"} /\ SizeUsed # {}
    THEN IF ManuallySpecifiedValue THEN ret.value = "false"
         ELSE Cardinality(SizeUsed) = 1 =>
                (ret.value = "false" <=> \E i \in SizeUsed : ChannelEnumerated(i))
    ELSE ret.value = "true"

\* The model with its encodings, and the positions of its wildcard index,
\* reordered by f.
PermuteModel(m, f) ==
  [specQuery |-> [m.specQuery EXCEPT !.encodings = Permuted(m.specQuery.encodings, f)],
   wildcardIndex |->
     [m.wildcardIndex EXCEPT !.encoding =
        {ik \in (1..Len(m.specQuery.encodings)) \X {e[2] : e \in m.wildcardIndex.encoding} :
           <<f[ik[1]], ik[2]>> \in m.wildcardIndex.encoding}]]

\* The encodings that are neither literal-value nor disabled auto-count and
\* carry a concrete non-positional channel.
NonPositional ==
  {i \in 1..Len(Encodings) :
     /\ Encodings[i].value = Undef
     /\ Encodings[i].autoCount # "false"
     /\ Encodings[i].channel \in NONSPATIAL_CHANNELS}

\* C22: omitMultipleNonPositionalChannels is violated iff at least two
\* non-skipped encodings carry a concrete non-positional channel and one of
\* those channels was enumerated from a wildcard or
\* constraintManuallySpecifiedValue is set; the verdict is the same for
\* every ordering of the encodings list.
C22_MultipleNonPositional ==
  AskedOf("omitMultipleNonPositionalChannels") =>
    /\ ret.value = "false" <=>
         /\ Cardinality(NonPositional) >= 2
         /\ ManuallySpecifiedValue \/ \E i \in NonPositional : ChannelEnumerated(i)
    /\ \A f \in Permutations(1..Len(Encodings)) :
         omitMultipleNonPositionalChannels(PermuteModel(specM, f), opt)
           = (ret.value = "true")

\* An enumerated size channel before a manually specified color: violated.
C22_Witness ==
  /\ AskedOf("omitMultipleNonPositionalChannels") /\ ~ManuallySpecifiedValue
  /\ Len(Encodings) = 2
  /\ Encodings[1].channel = "size" /\ ChannelEnumerated(1)
  /\ Encodings[2].channel = "color" /\ ~ChannelEnumerated(2)
  /\ ret.value = "false"

\* The field-backed encodings of the raw list with a concrete field name.
FieldBacked ==
  {i \in 1..Len(Encodings) :
     /\ Encodings[i].value = Undef
     /\ Encodings[i].autoCount = Undef
     /\ Encodings[i].field \notin {Undef, SHORT_WILDCARD}}

\* C23: omitRepeatedField is violated iff some concrete field name is
\* carried by two field-backed encodings of the raw list and at least one of
\* the two had its field enumerated from a wildcard or
\* constraintManuallySpecifiedValue is set; wildcarded fields, literal-value
\* and auto-count encodings never contribute.
C23_RepeatedField ==
  AskedOf("omitRepeatedField") =>
    (ret.value = "false" <=>
       \E i, j \in FieldBacked :
         /\ i # j
         /\ Encodings[i].field = Encodings[j].field
         /\ ManuallySpecifiedValue \/ FieldEnumerated(i) \/ FieldEnumerated(j))

\* A field enumerated to the name a later encoding was given: violated.
C23_Witness ==
  /\ AskedOf("omitRepeatedField") /\ ~ManuallySpecifiedValue
  /\ Len(Encodings) = 2
  /\ Encodings[1].field = "a" /\ FieldEnumerated(1)
  /\ Encodings[2].field = "a" /\ ~FieldEnumerated(2)
  /\ ret.value = "false"

\* C24: no rule predicate raises because a declared property is absent on
\* an encoding: with an enabled auto-count present, autoAddCount evaluated
\* on a field-backed encoding whose type is absent or still a wildcard
\* returns a boolean verdict that treats that encoding as satisfied.
C24_AbsentTypeSkipped ==
  (/\ AskedOf("autoAddCount")
   /\ EnabledAutoCountIndices # {}
   /\ \E i \in UsableIndices \cap FieldBacked :
        Encodings[i].type \in {Undef, SHORT_WILDCARD}) =>
    /\ ret.predicate \in {"true", "false"}
    /\ ret.value = "true" <=>
         \A i \in UsableIndices :
           /\ Encodings[i].value = Undef
           /\ (/\ Encodings[i].autoCount = Undef
               /\ Encodings[i].type \notin {Undef, SHORT_WILDCARD})
                => CountedField(Encodings[i])

FullyConcrete ==
  /\ ~isWildcard(specM.specQuery.mark)
  /\ \A i \in 1..Len(Encodings), p \in EncodingProperties :
       ~isWildcard(PropValue(Encodings[i], p))

\* The rule declares a property the query held as a wildcard.
DeclaresEnumerated(c) ==
  \E k \in 1..Len(c.properties) : hasProperty(specM.wildcardIndex, c.properties[k])

\* C26: when the driver has bound the wildcards of a model one at a time,
\* calling checkSpec with the property just bound after each binding, and
\* no call reported a violation, then in the resulting fully concrete model
\* every active rule that declares an enumerated property is satisfied.
C26_IncrementalMissesNothing ==
  (pc = "checked" /\ result = "null" /\ FullyConcrete) =>
    \A name \in ConstraintNames :
      (/\ Active(SPEC_CONSTRAINT_INDEX[name], opt)
       /\ DeclaresEnumerated(SPEC_CONSTRAINT_INDEX[name])) =>
        satisfy(SPEC_CONSTRAINT_INDEX[name], specM, opt) = "true"

=============================================================================
